---- MODULE Spec2Model ----
(***************************************************************************)
(* A model of the SAR RTC comparison core of mortened/TBA4560:             *)
(*   _data_utils.py      load_all_methods (loading and alignment)          *)
(*   _analyze.py         analyze_single_date, analyze_inter_product,       *)
(*                       run_single_date_analysis, run_timeseries_analysis *)
(*   _analyze_extended.py run_extended                                     *)
(*   _analyze_lia.py     find_offset, calc_slope, run_analysis             *)
(*                       get_lia_path, get_bs_path, load_raster           *)
(*   _data_utils.py      find_pyrosar_file, load_raster, calculate_stats   *)
(*   _process_hyp3.py    submit_jobs                                       *)
(*   _download_safe_files.py download_safe_files                           *)
(*   _change_detection.py validate_method                                  *)
(*                                                                         *)
(* Several specifications share the variables; each one leaves the         *)
(* variables of the others at their idle values:                           *)
(*   SpecLoad    one (date, AOI, pol) unit, one analysis handler           *)
(*   SpecSeries  the aggregation loop over several units                   *)
(*   SpecSlope   calc_slope on sample arrays                               *)
(*   SpecLia     run_analysis on one unit                                  *)
(*   SpecOffset  find_offset, one candidate shift per step                 *)
(*   SpecResolve find_pyrosar_file and get_bs_path on directory listings   *)
(*   SpecPixels  loading, masking, alignment and statistics of pixel grids *)
(*   SpecMetrics the pairwise metrics of two grids                         *)
(*   SpecSubmit  submit_jobs, one date per step                            *)
(*   SpecDownload download_safe_files, one date per step                   *)
(*   SpecValidate validate_method, one matched date per step               *)
(***************************************************************************)
EXTENDS Integers, Sequences, FiniteSets, TLC

VARIABLES
    pc,            \* position of the handler / loop of the running specification
    files,         \* SpecLoad: method -> native shape of its raster, or None
    loaded,        \* SpecLoad: what the handler's last load_all_methods returned
    data_dict,     \* SpecLoad: the handler's data_dict when it ends
    rows,          \* SpecLoad: the rows the handler built
    returned_none, \* SpecLoad: the handler returned None instead of a table
    metric_calls,  \* SpecLoad: the pairwise metric invocations of the handler
    load_calls,    \* SpecLoad: the as_db argument of each load_all_methods call
    unit_idx,      \* SpecSeries: number of units the loop has visited
    seen,          \* SpecSeries: per visited unit, the methods whose raster loaded
    all_stats,     \* SpecSeries: the list all_stats (one table per unit with data)
    all_comparisons, \* SpecSeries: the list all_comparisons
    stats_df,      \* SpecSeries: the returned stats table, or None
    comp_df,       \* SpecSeries: the returned comparison table, or None
    driver,        \* SpecSeries: the driver function that runs the loop
    slope_in,      \* SpecSlope: the arguments [bs, lia] of calc_slope
    slope_out,     \* SpecSlope: the record calc_slope returned
    lia_unit,      \* SpecLia: the files of the unit and the arrays they yield
    lia_ret,       \* SpecLia: what run_analysis returned
    off_in,        \* SpecOffset: the arguments [ref, test, max_shift] of find_offset
    off_norm,      \* SpecOffset: the sums that define the z-scored grids
    dy,            \* SpecOffset: loop variable dy
    dx,            \* SpecOffset: loop variable dx
    best,          \* SpecOffset: best = (corr, (dy, dx))
    evaluated,     \* SpecOffset: the shifts evaluated so far, in order
    off_ret,       \* SpecOffset: the returned offset
    fs,            \* SpecResolve: directory -> the list of its files
    res_args,      \* SpecResolve: the arguments [method, pol] of the resolvers
    found,         \* SpecResolve: what the calls of find_pyrosar_file returned
    bs_paths,      \* SpecResolve: what the calls of get_bs_path returned
    px_in,         \* SpecPixels: the raster file, its path and the call's arguments
    px_data,       \* SpecPixels: the grid the loader holds
    px_log,        \* SpecPixels: the values that were passed to np.log10
    px_opened,     \* SpecPixels: whether rasterio.open was called
    px_stats,      \* SpecPixels: what calculate_stats returned
    mt_in,         \* SpecMetrics: the two grids [a, b] the metrics are called with
    mt_out,        \* SpecMetrics: what the metric functions returned
    submit,        \* SpecSubmit: the locals of submit_jobs and the jobs it submitted
    dl,            \* SpecDownload: the locals of download_safe_files and its lists
    vm             \* SpecValidate: the locals of validate_method

loadVars   == <<files, loaded, data_dict, rows, returned_none, metric_calls,
                load_calls>>
seriesVars == <<unit_idx, seen, all_stats, all_comparisons, stats_df, comp_df, driver>>
slopeVars  == <<slope_in, slope_out>>
liaVars    == <<lia_unit, lia_ret>>
offsetVars == <<off_in, off_norm, dy, dx, best, evaluated, off_ret>>
resolveVars == <<fs, res_args, found, bs_paths>>
pixelVars  == <<px_in, px_data, px_log, px_opened, px_stats>>
metricVars == <<mt_in, mt_out>>
jobVars    == <<submit, dl, vm>>
vars == <<pc, loadVars, seriesVars, slopeVars, liaVars, offsetVars, resolveVars,
          pixelVars, metricVars, jobVars>>

(***************************************************************************)
(* Bounds                                                                  *)
(***************************************************************************)
MaxRows == 2
MaxCols == 1
\* number of (date, AOI, pol) units the aggregation loop is run over
NUnits == 2
\* calc_slope inputs: at most MaxGood samples that pass the validity filter,
\* followed by at most MaxBad copies of one boundary or invalid sample
MaxGood == 21
MaxBad == 2
\* find_offset inputs: grids of GridRows x GridCols pixels, max_shift and the
\* displacement of the test scene at most MaxShift
GridRows == 8
GridCols == 8
MaxShift == 1
\* the finite pixels of those grids are naturals up to MaxValue
MaxValue == 2
\* file resolution: each resolver is called at most MaxCalls times for a unit
MaxCalls == 2
\* a unit directory holds at most MaxFiles files
MaxFiles == 3

\* a raster of a unit has at most MaxPixels pixels
MaxPixels == 3

\* the flattened grids of a comparison have at most MaxLen pixels
MaxLen == 11
MaxDates == 2

(***************************************************************************)
(* Configuration (_config.py)                                              *)
(***************************************************************************)
\* Python's None. A shape is a pair <<rows, cols>>, so the empty tuple is free.
None == <<>>

\* METHODS, in the insertion order of the dict
METHODS ==
    <<"hyp3_gamma", "pyrosar_kartverket", "pyrosar_copernicus",
      "gee_s1ard_kartverket", "gee_s1ard_copernicus", "gee_standard">>

MethodKeys == {METHODS[i] : i \in 1..Len(METHODS)}

\* METHODS[method_key]['name']
MethodName(m) ==
    CASE m = "hyp3_gamma"           -> "HyP3 GAMMA (Cop. 30m)"
      [] m = "pyrosar_kartverket"   -> "PyroSAR/SNAP (Kart. 10m)"
      [] m = "pyrosar_copernicus"   -> "PyroSAR/SNAP (Cop. 30m)"
      [] m = "gee_s1ard_kartverket" -> "GEE s1_ard (Kart. 10m)"
      [] m = "gee_s1ard_copernicus" -> "GEE s1_ard (Cop. 30m)"
      [] m = "gee_standard"         -> "GEE Standard GRD"

\* the default reference of analyze_inter_product
ref_method == "hyp3_gamma"

PRIMARY_DATE == "20170613"

(***************************************************************************)
(* Inputs of one unit: the raster each method's path resolves to           *)
(***************************************************************************)
Shapes == {<<r, c>> : r \in 1..MaxRows, c \in 1..MaxCols}

\* a directory state: for every method the native shape of the raster its
\* path resolves to, or None when no file exists
FileSystems == [MethodKeys -> Shapes \cup {None}]

(***************************************************************************)
(* _data_utils.py: load_all_methods                                        *)
(***************************************************************************)
\* round(a / b) for a >= 0, b > 0
RoundDiv(a, b) == (2 * a + b) \div (2 * b)

\* zoom_factors = (ref_shape[0] / data.shape[0], ref_shape[1] / data.shape[1]);
\* each factor is kept as the exact quotient <<numerator, denominator>>
zoom_factors(ref_shape, shape) ==
    << <<ref_shape[1], shape[1]>>, <<ref_shape[2], shape[2]>> >>

\* the shape of scipy.ndimage.zoom(data, zf, order=1): round(dim * factor)
zoom_shape(shape, zf) ==
    << RoundDiv(shape[1] * zf[1][1], zf[1][2]),
       RoundDiv(shape[2] * zf[2][1], zf[2][2]) >>

\* data_dict[method_key] = data (insertion order is kept)
DictPut(d, m, shape) == Append(d, [method |-> m, shape |-> shape])

DictKeys(d) == {d[i].method : i \in 1..Len(d)}

\* data_dict.get(m): the shape stored for m, or None
DictShape(d, m) ==
    IF m \in DictKeys(d)
    THEN d[CHOOSE i \in 1..Len(d) : d[i].method = m].shape
    ELSE None

\* lines 103-110: the HyP3 (reference) product
LoadHyp3(f) ==
    IF f["hyp3_gamma"] # None
    THEN [dict          |-> DictPut(<<>>, "hyp3_gamma", f["hyp3_gamma"]),
          ref_shape     |-> f["hyp3_gamma"],
          ref_transform |-> TRUE,
          compared      |-> {}]
    ELSE [dict |-> <<>>, ref_shape |-> None, ref_transform |-> FALSE,
          compared |-> {}]

gee_methods == <<"gee_s1ard_kartverket", "gee_s1ard_copernicus", "gee_standard">>

\* mutant: a GEE grid supplies the transform when there is none
LoadGeeOne_SuppliesTransform(st, f, m) ==
    IF f[m] # None
    THEN [st EXCEPT !.dict = DictPut(@, m, f[m]),
                    !.ref_shape = IF @ = None THEN f[m] ELSE @,
                    !.ref_transform = TRUE]
    ELSE st

\* lines 119-126, one iteration: the grid is stored as loaded; it sets the
\* reference shape when none is set
LoadGeeOne(st, f, m) ==
    IF f[m] # None
    THEN [st EXCEPT !.dict = DictPut(@, m, f[m]),
                    !.ref_shape = IF @ = None THEN f[m] ELSE @]
    ELSE st

\* line 136: the resampling condition of a PyroSAR grid
NeedsResample(ref_shape, shape) == ref_shape # None /\ shape # ref_shape

pyrosar_methods == <<"pyrosar_kartverket", "pyrosar_copernicus">>

\* lines 129-141, one iteration: the grid is compared with the reference shape
\* (when there is one) and resampled on a mismatch; ref_shape is not assigned
LoadPyrosarOne(st, f, m) ==
    IF f[m] # None
    THEN [st EXCEPT
            !.dict = DictPut(@, m,
                        IF NeedsResample(st.ref_shape, f[m])
                        THEN zoom_shape(f[m], zoom_factors(st.ref_shape, f[m]))
                        ELSE f[m]),
            !.compared = IF st.ref_shape # None THEN @ \cup {m} ELSE @]
    ELSE st

\* load_all_methods(date_str, aoi_key, pol): [dict, ref_shape, ref_transform];
\* compared records the methods whose shape line 136 compared with ref_shape
load_all_methods(f) ==
    LET s0 == LoadHyp3(f)
        s1 == LoadGeeOne(s0, f, gee_methods[1])
        s2 == LoadGeeOne(s1, f, gee_methods[2])
        s3 == LoadGeeOne(s2, f, gee_methods[3])
        s4 == LoadPyrosarOne(s3, f, pyrosar_methods[1])
        s5 == LoadPyrosarOne(s4, f, pyrosar_methods[2])
    IN  s5

(***************************************************************************)
(* _analyze.py: analyze_single_date, analyze_inter_product                 *)
(***************************************************************************)
\* the tables of one handler call: [none, rows, calls, dict, loaded, loads];
\* loads holds the as_db argument of every load_all_methods call
NoTable(ld, loads) ==
    [none |-> TRUE, rows |-> <<>>, calls |-> {}, dict |-> ld.dict, loaded |-> ld,
     loads |-> loads]

\* lines 89-96: one stats row; mean, std, cv and n are calculate_stats(data),
\* kept here as the shape of the grid the statistics were computed on
StatsRow(u, e) ==
    [date |-> u.date, aoi |-> u.aoi, pol |-> u.pol, method |-> e.method,
     method_name |-> MethodName(e.method), stats_of |-> e.shape]

\* mutant: the unit is given up when the reference product is missing
analyze_single_date_NeedsRef(u, f) ==
    LET ld == load_all_methods(f) IN
    IF ld.dict = <<>> \/ "hyp3_gamma" \notin DictKeys(ld.dict)
    THEN NoTable(ld, <<TRUE>>)
    ELSE [none   |-> FALSE,
          rows   |-> [i \in 1..Len(ld.dict) |-> StatsRow(u, ld.dict[i])],
          calls  |-> {},
          dict   |-> ld.dict,
          loaded |-> ld,
          loads  |-> <<TRUE>>]

\* analyze_single_date(date_str, aoi_key, pol) on the directory state f
analyze_single_date(u, f) ==
    LET ld == load_all_methods(f) IN
    IF ld.dict = <<>>
    THEN NoTable(ld, <<TRUE>>)
    ELSE [none   |-> FALSE,
          rows   |-> [i \in 1..Len(ld.dict) |-> StatsRow(u, ld.dict[i])],
          calls  |-> {},
          dict   |-> ld.dict,
          loaded |-> ld,
          loads  |-> <<TRUE>>]

\* mutant: the shape guard is dropped
SameShape_NoGuard(shape, ref_shape) == TRUE

\* line 123: the guard in front of the pairwise metrics
SameShape(shape, ref_shape) == shape = ref_shape

\* lines 131-142: one comparison row; rmse, bias, r, p are the metrics of
\* (data, ref_data), kept as the two shapes they were computed on
ComparisonRow(u, e, ref_shape) ==
    [date |-> u.date, aoi |-> u.aoi, pol |-> u.pol, method |-> e.method,
     method_name |-> MethodName(e.method), ref |-> ref_method,
     metrics_of |-> <<e.shape, ref_shape>>]

InterProductMetrics == {"calculate_rmse", "calculate_bias", "calculate_correlation"}

\* analyze_inter_product(date_str, aoi_key, pol, ref_method='hyp3_gamma')
analyze_inter_product(u, f) ==
    LET ld == load_all_methods(f) IN
    IF ld.dict = <<>> \/ ref_method \notin DictKeys(ld.dict)
    THEN NoTable(ld, <<TRUE>>)
    ELSE
      LET ref_shape == DictShape(ld.dict, ref_method)
          compared  == SelectSeq(ld.dict,
                         LAMBDA e : e.method # ref_method
                                    /\ SameShape(e.shape, ref_shape))
      IN  [none   |-> compared = <<>>,
           rows   |-> [i \in 1..Len(compared) |->
                          ComparisonRow(u, compared[i], ref_shape)],
           calls  |-> {[fn |-> fn, test |-> compared[i].shape, ref |-> ref_shape] :
                          fn \in InterProductMetrics, i \in 1..Len(compared)},
           dict   |-> ld.dict,
           loaded |-> ld,
           loads  |-> <<TRUE>>]

(***************************************************************************)
(* _analyze_extended.py: run_extended                                      *)
(***************************************************************************)
\* lines 50-53: every grid whose shape differs from ref_shape is resampled
Realign(d, ref_shape) ==
    [i \in 1..Len(d) |->
        IF d[i].shape # ref_shape
        THEN [d[i] EXCEPT !.shape = zoom_shape(@, zoom_factors(ref_shape, @))]
        ELSE d[i]]

ExtendedMetrics == {"calc_rmse", "calc_r2"}

\* lines 55-72: one row.  mean_db and bias are computed on bs, the grid of
\* the re-aligned dB dict (stats_of); cv is calc_cv(bs_linear) on the grid of
\* data_linear, which the re-alignment loop does not touch (cv_of).
\* rmse_vs_ref and r2_vs_ref exist only for a non-reference method when the
\* reference grid is loaded
ExtendedRow(u, e, ref_data, data_linear) ==
    LET base == [date |-> u.date, aoi |-> u.aoi, pol |-> u.pol,
                 method |-> e.method, stats_of |-> e.shape,
                 cv_of |-> DictShape(data_linear, e.method)]
    IN  IF ref_data # None /\ e.method # "hyp3_gamma"
        THEN [date |-> base.date, aoi |-> base.aoi, pol |-> base.pol,
              method |-> base.method, stats_of |-> base.stats_of,
              cv_of |-> base.cv_of,
              metrics_of |-> <<e.shape, ref_data>>]
        ELSE base

\* run_extended(date_str, aoi_key, pol): load_all_methods is called twice,
\* with as_db=False for data_linear and with as_db=True for data_dict (lines
\* 39-40); ref_data is read before the re-alignment loop and is the grid the
\* metrics are computed against
run_extended(u, f) ==
    LET data_linear == load_all_methods(f).dict
        ld == load_all_methods(f) IN
    IF ld.dict = <<>>
    THEN NoTable(ld, <<FALSE, TRUE>>)
    ELSE
      LET ref_data  == DictShape(ld.dict, "hyp3_gamma")
          ref_shape == IF ref_data = None THEN ld.dict[1].shape ELSE ref_data
          d         == Realign(ld.dict, ref_shape)
      IN  [none   |-> FALSE,
           rows   |-> [i \in 1..Len(d) |->
                          ExtendedRow(u, d[i], ref_data, data_linear)],
           calls  |-> {[fn |-> fn, test |-> d[i].shape, ref |-> ref_data] :
                          fn \in ExtendedMetrics,
                          i \in {j \in 1..Len(d) :
                                    ref_data # None /\ d[j].method # "hyp3_gamma"}},
           dict   |-> d,
           loaded |-> ld,
           loads  |-> <<FALSE, TRUE>>]

(***************************************************************************)
(* SpecLoad: one unit, one handler                                         *)
(***************************************************************************)
Unit0 == [date |-> PRIMARY_DATE, aoi |-> "jorde", pol |-> "vv"]

IdleLoaded == [dict |-> <<>>, ref_shape |-> None, ref_transform |-> FALSE,
               compared |-> {}]

LoadIdle ==
    /\ files = [m \in MethodKeys |-> None]
    /\ loaded = IdleLoaded
    /\ data_dict = <<>>
    /\ rows = <<>>
    /\ returned_none = FALSE
    /\ metric_calls = {}
    /\ load_calls = <<>>

SeriesIdle ==
    /\ unit_idx = 0
    /\ seen = <<>>
    /\ all_stats = <<>>
    /\ all_comparisons = <<>>
    /\ stats_df = None
    /\ comp_df = None
    /\ driver = ""

SlopeIdle ==
    /\ slope_in = [bs |-> <<>>, lia |-> <<>>]
    /\ slope_out = [n |-> 0]

LiaIdle ==
    /\ lia_unit = [bs |-> {}, lia |-> {}, good |-> 0]
    /\ lia_ret = [df |-> <<>>]

OffsetIdle ==
    /\ off_in = [ref |-> <<>>, test |-> <<>>, max_shift |-> 0]
    /\ off_norm = [sref |-> 0, stest |-> 0]
    /\ dy = 0
    /\ dx = 0
    /\ best = [shift |-> <<0, 0>>]
    /\ evaluated = <<>>
    /\ off_ret = None

ResolveIdle ==
    /\ fs = <<>>
    /\ res_args = <<>>
    /\ found = <<>>
    /\ bs_paths = <<>>

PixelIdle ==
    /\ px_in = <<>>
    /\ px_data = <<>>
    /\ px_log = {}
    /\ px_opened = FALSE
    /\ px_stats = <<>>

MetricIdle ==
    /\ mt_in = <<>>
    /\ mt_out = <<>>

JobIdle ==
    /\ submit = <<>>
    /\ dl = <<>>
    /\ vm = <<>>

InitLoad ==
    /\ pc = "start"
    /\ files \in FileSystems
    /\ loaded = IdleLoaded
    /\ data_dict = <<>>
    /\ rows = <<>>
    /\ returned_none = FALSE
    /\ metric_calls = {}
    /\ load_calls = <<>>
    /\ SeriesIdle
    /\ SlopeIdle
    /\ LiaIdle
    /\ OffsetIdle
    /\ ResolveIdle
    /\ PixelIdle
    /\ MetricIdle
    /\ JobIdle

Finish(name, t) ==
    /\ pc' = name
    /\ loaded' = t.loaded
    /\ data_dict' = t.dict
    /\ rows' = t.rows
    /\ returned_none' = t.none
    /\ metric_calls' = t.calls
    /\ load_calls' = t.loads
    /\ UNCHANGED <<files, seriesVars, slopeVars, liaVars, offsetVars, resolveVars,
                   pixelVars,
                   metricVars, jobVars>>

LoadAllMethods ==
    /\ pc = "start"
    /\ LET ld == load_all_methods(files) IN
         Finish("load_all_methods",
                [none |-> FALSE, rows |-> <<>>, calls |-> {}, dict |-> ld.dict,
                 loaded |-> ld, loads |-> <<TRUE>>])

AnalyzeSingleDate ==
    /\ pc = "start"
    /\ Finish("analyze_single_date", analyze_single_date(Unit0, files))

AnalyzeInterProduct ==
    /\ pc = "start"
    /\ Finish("analyze_inter_product", analyze_inter_product(Unit0, files))

RunExtended ==
    /\ pc = "start"
    /\ Finish("run_extended", run_extended(Unit0, files))

NextLoad ==
    \/ LoadAllMethods
    \/ AnalyzeSingleDate
    \/ AnalyzeInterProduct
    \/ RunExtended

SpecLoad == InitLoad /\ [][NextLoad]_vars

(***************************************************************************)
(* _analyze.py: run_timeseries_analysis, run_single_date_analysis          *)
(***************************************************************************)
COMPARISON_DATES ==
    <<"20170508", "20170515", "20170526",
      "20170607", "20170613", "20170614", "20170620", "20170624", "20170630",
      "20170707", "20170714", "20170720",
      "20170801", "20170807", "20170823", "20170831",
      "20170924", "20170928",
      "20171010", "20171016">>

\* AOI_FILES.keys()
AOI_KEYS == <<"jorde", "skog_flatt", "skog_bratt">>

\* for pol in ['vv', 'vh']
POLS == <<"vv", "vh">>

UnitsPerDate == Len(AOI_KEYS) * Len(POLS)

\* the k-th unit of the nested loops (date outermost, then AOI, then pol)
UnitAt(dates, k) ==
    [date |-> dates[((k - 1) \div UnitsPerDate) + 1],
     aoi  |-> AOI_KEYS[(((k - 1) % UnitsPerDate) \div Len(POLS)) + 1],
     pol  |-> POLS[((k - 1) % Len(POLS)) + 1]]

\* the dates a driver iterates: COMPARISON_DATES, or the one date given
DatesOf(drv) ==
    IF drv = "run_timeseries_analysis" THEN COMPARISON_DATES
    ELSE <<PRIMARY_DATE>>

\* the number of units the nested loops of the driver visit
UnitCount(drv) == Len(DatesOf(drv)) * UnitsPerDate

\* the units that may hold files: the first and the last unit of the loop and
\* the unit (PRIMARY_DATE, skog_flatt, vv); at most NUnits of them hold files
\* in one run, and every other unit of the loop has none
ProbeUnits(drv) ==
    {1, UnitCount(drv)} \cup
    {k \in 1..UnitCount(drv) :
        UnitAt(DatesOf(drv), k) =
            [date |-> PRIMARY_DATE, aoi |-> AOI_KEYS[2], pol |-> POLS[1]]}

\* the number of visited units that held a file
Populated(visited) ==
    Cardinality({k \in 1..Len(visited) : visited[k].methods # {}})

\* the directory states of a unit in the loop: any subset of the methods has
\* a file. The products of the two Kartverket-DEM chains are on the smallest
\* grid and the other products on the largest, so that a unit can hold a GEE
\* grid that matches the reference, one that does not, and a PyroSAR grid
\* that is resampled.
NativeShape(m) ==
    IF m \in {"pyrosar_kartverket", "gee_s1ard_kartverket"} THEN <<1, 1>>
    ELSE <<MaxRows, MaxCols>>

\* the methods whose products the units of a run may hold: the reference, a
\* GEE product on the smallest grid, a GEE product on the grid of the
\* reference, and a PyroSAR product
SeriesMethods ==
    {"hyp3_gamma", "gee_s1ard_kartverket", "gee_standard", "pyrosar_kartverket"}

SeriesFileSystems ==
    {[m \in MethodKeys |-> IF m \in A THEN NativeShape(m) ELSE None] :
        A \in SUBSET SeriesMethods}

\* pd.concat(tables, ignore_index=True)
RECURSIVE Concat(_)
Concat(tables) ==
    IF tables = <<>> THEN <<>> ELSE Head(tables) \o Concat(Tail(tables))

\* lines 223-230 (and 159-166): the body of the loop for one unit
VisitUnit(drv) ==
    /\ pc = "loop"
    /\ driver = drv
    /\ unit_idx < UnitCount(drv)
    /\ \E f \in SeriesFileSystems :
         /\ (\E m \in MethodKeys : f[m] # None) =>
                /\ unit_idx + 1 \in ProbeUnits(drv)
                /\ Populated(seen) < NUnits
         /\ LET u        == UnitAt(DatesOf(drv), unit_idx + 1)
                df_stats == analyze_single_date(u, f)
                df_comp  == analyze_inter_product(u, f)
            IN
             /\ all_stats' = IF ~df_stats.none
                             THEN Append(all_stats, df_stats.rows) ELSE all_stats
             /\ all_comparisons' = IF ~df_comp.none
                                   THEN Append(all_comparisons, df_comp.rows)
                                   ELSE all_comparisons
             /\ seen' = Append(seen, [unit |-> u,
                                      methods |-> {m \in MethodKeys : f[m] # None}])
    /\ unit_idx' = unit_idx + 1
    /\ UNCHANGED <<pc, loadVars, stats_df, comp_df, driver, slopeVars, liaVars,
                   offsetVars, resolveVars,
                   pixelVars,
                   metricVars, jobVars>>

\* lines 235-271 (and 172-205): the tables are concatenated and returned
ReturnTables(drv) ==
    /\ pc = "loop"
    /\ driver = drv
    /\ unit_idx = UnitCount(drv)
    /\ pc' = "returned"
    /\ stats_df' = IF all_stats # <<>> THEN Concat(all_stats) ELSE None
    /\ comp_df' = IF all_comparisons # <<>> THEN Concat(all_comparisons) ELSE None
    /\ UNCHANGED <<loadVars, unit_idx, seen, all_stats, all_comparisons, driver,
                   slopeVars, liaVars, offsetVars, resolveVars,
                   pixelVars,
                   metricVars, jobVars>>

run_timeseries_analysis ==
    \/ VisitUnit("run_timeseries_analysis")
    \/ ReturnTables("run_timeseries_analysis")

run_single_date_analysis ==
    \/ VisitUnit("run_single_date_analysis")
    \/ ReturnTables("run_single_date_analysis")

InitSeries ==
    /\ pc = "loop"
    /\ LoadIdle
    /\ unit_idx = 0
    /\ seen = <<>>
    /\ all_stats = <<>>
    /\ all_comparisons = <<>>
    /\ stats_df = None
    /\ comp_df = None
    /\ driver \in {"run_timeseries_analysis", "run_single_date_analysis"}
    /\ SlopeIdle
    /\ LiaIdle
    /\ OffsetIdle
    /\ ResolveIdle
    /\ PixelIdle
    /\ MetricIdle
    /\ JobIdle

NextSeries == run_timeseries_analysis \/ run_single_date_analysis

SpecSeries == InitSeries /\ [][NextSeries]_vars

(***************************************************************************)
(* _analyze_lia.py: calc_slope                                             *)
(*                                                                         *)
(* An array is a sequence of integers (backscatter in dB, angle in         *)
(* degrees); NaN stands for a non-finite entry. A float result is either   *)
(* Undefined (np.nan) or an exact quotient.                                *)
(***************************************************************************)
\* the code of a non-finite array entry (outside every value range used)
NaN == 9999

\* np.nan as a result field
Undefined == [nan |-> TRUE]

\* lines 90-91: the bounds of the validity filter
LIA_MIN == 15
LIA_MAX == 60
BS_MIN == -40
BS_MAX == 5
\* line 93: the minimum number of valid samples
MIN_SAMPLES == 20

isfinite(x) == x # NaN

\* mutant: the lower backscatter bound is inclusive
ValidSample_BsInclusive(b, l) ==
    /\ isfinite(b) /\ isfinite(l)
    /\ l >= LIA_MIN /\ l <= LIA_MAX
    /\ b >= BS_MIN /\ b < BS_MAX

\* lines 90-91: valid[i]
ValidSample(b, l) ==
    /\ isfinite(b) /\ isfinite(l)
    /\ l >= LIA_MIN /\ l <= LIA_MAX
    /\ b > BS_MIN /\ b < BS_MAX

\* the entries of a that the mask keeps, in order: a[valid]
RECURSIVE Masked(_, _, _)
Masked(a, bs, lia) ==
    IF a = <<>> THEN <<>>
    ELSE IF ValidSample(Head(bs), Head(lia))
         THEN <<Head(a)>> \o Masked(Tail(a), Tail(bs), Tail(lia))
         ELSE Masked(Tail(a), Tail(bs), Tail(lia))

RECURSIVE SumSeq(_)
SumSeq(a) == IF a = <<>> THEN 0 ELSE Head(a) + SumSeq(Tail(a))

RECURSIVE SumProd(_, _)
SumProd(a, b) ==
    IF a = <<>> THEN 0 ELSE Head(a) * Head(b) + SumProd(Tail(a), Tail(b))

\* mutant: the threshold is off by one
TooFewSamples_OffByOne(n) == n < MIN_SAMPLES - 1

\* line 93: valid.sum() < 20
TooFewSamples(n) == n < MIN_SAMPLES

\* line 96: stats.linregress(x, y) as exact quotients:
\*   slope = Sxy / Sxx, intercept = (Sy * Sxx - Sxy * Sx) / (n * Sxx),
\*   r**2 = Sxy^2 / (Sxx * Syy), kept as its three terms (r = 0 if Syy = 0)
linregress(x, y) ==
    LET n   == Len(x)
        Sx  == SumSeq(x)
        Sy  == SumSeq(y)
        Sxx == n * SumProd(x, x) - Sx * Sx
        Syy == n * SumProd(y, y) - Sy * Sy
        Sxy == n * SumProd(x, y) - Sx * Sy
    IN  [slope     |-> [num |-> Sxy, den |-> Sxx],
         intercept |-> [num |-> Sy * Sxx - Sxy * Sx, den |-> n * Sxx],
         r2        |-> [cov |-> Sxy, varx |-> Sxx, vary |-> Syy]]

\* calc_slope(bs, lia); None and the empty array give the same record
calc_slope(bs, lia) ==
    IF bs = None \/ lia = None
    THEN [slope |-> Undefined, r2 |-> Undefined, n |-> 0]
    ELSE
      LET lia_v == Masked(lia, bs, lia)
          bs_v  == Masked(bs, bs, lia)
          n     == Len(lia_v)
      IN  IF TooFewSamples(n)
          THEN [slope |-> Undefined, r2 |-> Undefined, n |-> n]
          ELSE LET reg == linregress(lia_v, bs_v) IN
               [slope |-> reg.slope, intercept |-> reg.intercept,
                r2 |-> reg.r2, n |-> n, _lia |-> lia_v, _bs |-> bs_v]

(***************************************************************************)
(* SpecSlope: calc_slope on sample arrays                                  *)
(***************************************************************************)
\* the i-th sample that passes the filter: angles spread over [15, 60],
\* backscatter between -13 and -5 dB, falling with the angle when tilt = 1
GoodLia(i) == LIA_MIN + (((i - 1) * 7) % (LIA_MAX - LIA_MIN + 1))
GoodBs(i, tilt) == (-10) - (i % 3) - (tilt * ((GoodLia(i) - LIA_MIN) \div 9))

\* samples on and next to the bounds of the filter, and non-finite ones
EdgeSamples ==
    {[bs |-> b, lia |-> l] :
        b \in {NaN, BS_MIN, BS_MIN + 1, -10, BS_MAX - 1, BS_MAX},
        l \in {NaN, LIA_MIN - 1, LIA_MIN, LIA_MAX, LIA_MAX + 1}}

SampleArrays(good, tilt, bad, edge) ==
    [bs  |-> [i \in 1..(good + bad) |->
                 IF i <= good THEN GoodBs(i, tilt) ELSE edge.bs],
     lia |-> [i \in 1..(good + bad) |->
                 IF i <= good THEN GoodLia(i) ELSE edge.lia]]

SlopeInputs ==
    {SampleArrays(good, tilt, bad, edge) :
        good \in 0..MaxGood, tilt \in {0, 1}, bad \in 0..MaxBad,
        edge \in EdgeSamples}

InitSlope ==
    /\ pc = "start"
    /\ slope_in \in SlopeInputs
    /\ slope_out = [n |-> 0]
    /\ LoadIdle
    /\ SeriesIdle
    /\ LiaIdle
    /\ OffsetIdle
    /\ ResolveIdle
    /\ PixelIdle
    /\ MetricIdle
    /\ JobIdle

CalcSlope ==
    /\ pc = "start"
    /\ pc' = "calc_slope"
    /\ slope_out' = calc_slope(slope_in.bs, slope_in.lia)
    /\ UNCHANGED <<slope_in, loadVars, seriesVars, liaVars, offsetVars, resolveVars,
                   pixelVars,
                   metricVars, jobVars>>

NextSlope == CalcSlope

SpecSlope == InitSlope /\ [][NextSlope]_vars

(***************************************************************************)
(* _analyze_lia.py: get_lia_path, run_analysis                             *)
(***************************************************************************)
\* mutant: no angle file is flagged as radians
get_lia_path_NoFlag(m) ==
    [file |-> CASE m \in {"hyp3_gamma", "gee_standard"} -> "hyp3_inc"
                [] m = "pyrosar_kartverket" ->
                      "pyrosar_kartverket_localIncidenceAngle_cropped"
                [] m = "pyrosar_copernicus" ->
                      "pyrosar_copernicus_localIncidenceAngle_cropped"
                [] m = "gee_s1ard_kartverket" -> "s1ard_kartverket_lia"
                [] m = "gee_s1ard_copernicus" -> "s1ard_copernicus_lia",
     is_rad |-> FALSE]

\* get_lia_path(date, aoi, method): the angle file of the unit that the
\* method reads, and whether it holds radians
get_lia_path(m) ==
    CASE m = "hyp3_gamma"           -> [file |-> "hyp3_inc", is_rad |-> TRUE]
      [] m = "pyrosar_kartverket"   ->
            [file |-> "pyrosar_kartverket_localIncidenceAngle_cropped",
             is_rad |-> FALSE]
      [] m = "pyrosar_copernicus"   ->
            [file |-> "pyrosar_copernicus_localIncidenceAngle_cropped",
             is_rad |-> FALSE]
      [] m = "gee_s1ard_kartverket" ->
            [file |-> "s1ard_kartverket_lia", is_rad |-> FALSE]
      [] m = "gee_s1ard_copernicus" ->
            [file |-> "s1ard_copernicus_lia", is_rad |-> FALSE]
      [] m = "gee_standard"         -> [file |-> "hyp3_inc", is_rad |-> TRUE]

LiaFiles == {get_lia_path(m).file : m \in MethodKeys}

\* the native grid of an angle file: that of the product it belongs to
LiaNativeShape(m) ==
    IF get_lia_path(m).file = "hyp3_inc" THEN NativeShape("hyp3_gamma")
    ELSE NativeShape(m)

\* lines 129-132: a grid whose shape differs from ref_shape is resampled
AlignedShape(shape, ref_shape) ==
    IF shape # ref_shape THEN zoom_shape(shape, zoom_factors(ref_shape, shape))
    ELSE shape

\* the aligned arrays (bs_db, lia in degrees) that the rasters of method m
\* yield in a unit whose rasters hold `good` valid samples; the chain without
\* terrain correction keeps an angle dependence
UnitArrays(unit, m) ==
    SampleArrays(unit.good, IF m = "gee_standard" THEN 1 ELSE 0, 0,
                 [bs |-> NaN, lia |-> NaN])

\* pi as the quotient PI_NUM / PI_DEN
PI_NUM == 355
PI_DEN == 113

\* an angle of whole degrees in whole milliradians (NaN stays NaN)
deg2mrad(d) ==
    IF d = NaN THEN NaN ELSE RoundDiv(d * PI_NUM * 1000, PI_DEN * 180)

\* line 126: np.rad2deg(lia) on an array of milliradians, to whole degrees
rad2deg(lia) ==
    [i \in 1..Len(lia) |->
        IF lia[i] = NaN THEN NaN
        ELSE RoundDiv(lia[i] * PI_DEN * 180, PI_NUM * 1000)]

\* the array the angle raster of method m holds: the incidence map of HyP3
\* stores radians, the angle rasters of PyroSAR and GEE store degrees
StoredAngles(unit, m) ==
    LET degrees == UnitArrays(unit, m).lia
    IN  IF get_lia_path(m).file = "hyp3_inc"
        THEN [i \in 1..Len(degrees) |-> deg2mrad(degrees[i])]
        ELSE degrees

\* lines 119-126: lia = load_raster(lia_path); if is_rad: lia = np.rad2deg(lia)
load_lia(unit, m) ==
    IF get_lia_path(m).is_rad
    THEN [lia |-> rad2deg(StoredAngles(unit, m)), converted |-> TRUE]
    ELSE [lia |-> StoredAngles(unit, m), converted |-> FALSE]

\* mutant: the angle file is not checked
Computable_BsOnly(unit, m) == m \in unit.bs

\* lines 113-124: the method is skipped (continue) unless its backscatter
\* raster and its angle raster both load
Computable(unit, m) ==
    /\ m \in unit.bs
    /\ get_lia_path(m).file \in unit.lia

\* mutant: the row loses its r2 column
LiaRow_NoR2(u, m, reg) ==
    [date |-> u.date, aoi |-> u.aoi, pol |-> u.pol, method |-> m,
     slope |-> reg.slope, n |-> reg.n]

\* lines 148-149: the row of one method
LiaRow(u, m, reg) ==
    [date |-> u.date, aoi |-> u.aoi, pol |-> u.pol, method |-> m,
     slope |-> reg.slope, r2 |-> reg.r2, n |-> reg.n]

\* run_analysis(date, aoi, pol): [df, data_dict, lia_cache, reg_cache]
run_analysis(u, unit) ==
    IF "hyp3_gamma" \notin unit.bs
    THEN [df |-> None, data_dict |-> None, lia_cache |-> None, reg_cache |-> None]
    ELSE
      LET ref_shape == NativeShape("hyp3_gamma")
          ms        == SelectSeq(METHODS, LAMBDA m : Computable(unit, m))
          reg(m)    == calc_slope(UnitArrays(unit, m).bs, load_lia(unit, m).lia)
          results   == [i \in 1..Len(ms) |-> LiaRow(u, ms[i], reg(ms[i]))]
      IN  [df         |-> IF results # <<>> THEN results ELSE None,
           data_dict  |-> [i \in 1..Len(ms) |->
                             [method |-> ms[i],
                              shape  |-> AlignedShape(NativeShape(ms[i]), ref_shape)]],
           lia_cache  |-> [i \in 1..Len(ms) |->
                             [method |-> ms[i],
                              shape  |-> AlignedShape(LiaNativeShape(ms[i]), ref_shape),
                              lia    |-> load_lia(unit, ms[i]).lia,
                              converted |-> load_lia(unit, ms[i]).converted]],
           reg_cache  |-> [i \in 1..Len(ms) |->
                             [method |-> ms[i], reg |-> reg(ms[i])]]]

(***************************************************************************)
(* SpecLia: run_analysis on one unit                                       *)
(***************************************************************************)
\* the units: any subset of the backscatter rasters and of the angle rasters
\* exists; the rasters hold no, too few or enough valid samples
LiaUnits ==
    [bs : SUBSET MethodKeys, lia : SUBSET LiaFiles,
     good : {0, MaxGood - 2, MaxGood}]

InitLia ==
    /\ pc = "start"
    /\ lia_unit \in LiaUnits
    /\ lia_ret = [df |-> <<>>]
    /\ LoadIdle
    /\ SeriesIdle
    /\ SlopeIdle
    /\ OffsetIdle
    /\ ResolveIdle
    /\ PixelIdle
    /\ MetricIdle
    /\ JobIdle

RunAnalysis ==
    /\ pc = "start"
    /\ pc' = "run_analysis"
    /\ lia_ret' = run_analysis(Unit0, lia_unit)
    /\ UNCHANGED <<lia_unit, loadVars, seriesVars, slopeVars, offsetVars, resolveVars,
                   pixelVars,
                   metricVars, jobVars>>

NextLia == RunAnalysis

SpecLia == InitLia /\ [][NextLia]_vars

(***************************************************************************)
(* _analyze_lia.py: find_offset                                            *)
(*                                                                         *)
(* A grid is a sequence of GridRows rows of GridCols pixels; a pixel is a  *)
(* natural or NaN.  The floating-point quantities of the code are modelled *)
(* by exact rationals: a mean is the pair (sum, pixel count), a Pearson    *)
(* correlation r is the triple (sign of r, p, q) with r * r = p / q.       *)
(* Correlation is invariant under the z-scoring of lines 70-71, so it is   *)
(* computed on the zero-filled values; the z-scored value of a pixel is    *)
(* zero exactly when the pixel equals the mean of its grid.                *)
(***************************************************************************)
NPixels == GridRows * GridCols

\* lines 66-67: ref[~np.isfinite(ref)] = 0
fill_nonfinite(v) == IF isfinite(v) THEN v ELSE 0

Row(k) == ((k - 1) \div GridCols) + 1
Col(k) == ((k - 1) % GridCols) + 1
Units == 1..MaxValue

\* grid.sum() and (grid ** 2).sum() of a zero-filled grid of naturals: a
\* pixel of value v is counted once for every u <= v (for every pair u, w <= v)
GridSum(grid, k, pow) ==
    IF pow = 1
    THEN Cardinality({t \in (1..k) \X Units :
                        t[2] <= fill_nonfinite(grid[Row(t[1])][Col(t[1])])})
    ELSE Cardinality({t \in (1..k) \X Units \X Units :
                        /\ t[2] <= fill_nonfinite(grid[Row(t[1])][Col(t[1])])
                        /\ t[3] <= fill_nonfinite(grid[Row(t[1])][Col(t[1])])})

\* mutant: no grid counts as degenerate
std_below_eps_Never(grid) == FALSE

\* line 68: grid.std() < 1e-6.  The variance of the zero-filled grid is
\* (N * sum(x^2) - sum(x)^2) / N^2; for integer pixels it is 0 or at least
\* 1 / N^2, so that the standard deviation is below 1e-6 only when it is 0.
std_below_eps(grid) ==
    NPixels * GridSum(grid, NPixels, 2)
        - GridSum(grid, NPixels, 1) * GridSum(grid, NPixels, 1) = 0

\* lines 70-71: the z-scored pixel (v - mean) / std is zero iff v = mean
z_is_zero(v, sum) == NPixels * fill_nonfinite(v) = sum

InFrame(i, j) == i \in 1..GridRows /\ j \in 1..GridCols

\* line 76: ndimage.shift(test, (dy, dx), order=0, mode='constant'):
\* output[i, j] = input[i - dy, j - dx], and 0 outside the frame
shifted_is_zero(in, norm, i, j, sdy, sdx) ==
    \/ ~InFrame(i - sdy, j - sdx)
    \/ z_is_zero(in.test[i - sdy][j - sdx], norm.stest)

\* line 77: valid = (ref != 0) & (shifted != 0)
valid(in, norm, i, j, sdy, sdx) ==
    /\ ~z_is_zero(in.ref[i][j], norm.sref)
    /\ ~shifted_is_zero(in, norm, i, j, sdy, sdx)

\* the sums over the valid pixels that valid.sum() and np.corrcoef need;
\* x is the reference pixel, y the pixel of the shifted test grid
ValidSums(in, norm, sdy, sdx) ==
    LET V == {k \in 1..NPixels : valid(in, norm, Row(k), Col(k), sdy, sdx)}
        x == [k \in V |-> fill_nonfinite(in.ref[Row(k)][Col(k)])]
        y == [k \in V |-> fill_nonfinite(in.test[Row(k) - sdy][Col(k) - sdx])]
        VU == V \X Units
        VUU == V \X Units \X Units
    IN  [n   |-> Cardinality(V),
         sx  |-> Cardinality({t \in VU : t[2] <= x[t[1]]}),
         sy  |-> Cardinality({t \in VU : t[2] <= y[t[1]]}),
         sxx |-> Cardinality({t \in VUU : t[2] <= x[t[1]] /\ t[3] <= x[t[1]]}),
         syy |-> Cardinality({t \in VUU : t[2] <= y[t[1]] /\ t[3] <= y[t[1]]}),
         sxy |-> Cardinality({t \in VUU : t[2] <= x[t[1]] /\ t[3] <= y[t[1]]})]

Sign(c) == IF c > 0 THEN 1 ELSE IF c < 0 THEN -1 ELSE 0

\* line 79: np.corrcoef(ref[valid], shifted[valid])[0, 1]; nan when one of
\* the two samples has no variance
corrcoef(s) ==
    LET c == s.n * s.sxy - s.sx * s.sy
        a == s.n * s.sxx - s.sx * s.sx
        b == s.n * s.syy - s.sy * s.sy
    IN  IF a = 0 \/ b = 0 THEN Undefined
        ELSE [sgn |-> Sign(c), p |-> c * c, q |-> a * b]

\* a / b < c / d for naturals a, c and positive b, d, by continued fractions
RECURSIVE FracLess(_, _, _, _)
FracLess(a, b, c, d) ==
    LET qa == a \div b
        qc == c \div d
        ra == a % b
        rc == c % d
    IN  IF qa # qc THEN qa < qc
        ELSE IF rc = 0 THEN FALSE
        ELSE IF ra = 0 THEN TRUE
        ELSE FracLess(d, rc, b, ra)

\* r1 > r2 for two defined correlations
CorrGreater(r1, r2) ==
    IF r1.sgn # r2.sgn THEN r1.sgn > r2.sgn
    ELSE IF r1.sgn = 1 THEN FracLess(r2.p, r2.q, r1.p, r1.q)
    ELSE IF r1.sgn = -1 THEN FracLess(r1.p, r1.q, r2.p, r2.q)
    ELSE FALSE

\* line 73: best = (-999, (0, 0))
INITIAL_CORR == [sgn |-> -1, p |-> 998001, q |-> 1]

\* mutant: the initial best shift is not the zero shift
initial_best_Shifted == [corr |-> INITIAL_CORR, shift |-> <<1, 1>>]

initial_best == [corr |-> INITIAL_CORR, shift |-> <<0, 0>>]

\* line 78: valid.sum() >= 50
MIN_VALID == 50

\* mutant: the gate is off by one
enough_valid_OffByOne(n) == n >= MIN_VALID - 1

enough_valid(n) == n >= MIN_VALID

\* mutant: an equal correlation replaces the best
Better_OrEqual(corr, best_corr) ==
    corr # Undefined /\ ~CorrGreater(best_corr, corr)

\* line 80: corr > best[0]; a comparison with nan is False
Better(corr, best_corr) ==
    corr # Undefined /\ CorrGreater(corr, best_corr)

\* lines 76-81: the body of the double loop for the candidate (sdy, sdx)
evaluate_candidate(in, norm, b, sdy, sdx) ==
    LET s == ValidSums(in, norm, sdy, sdx)
    IN  IF enough_valid(s.n)
        THEN LET corr == corrcoef(s)
             IN  IF Better(corr, b.corr)
                 THEN [corr |-> corr, shift |-> <<sdy, sdx>>]
                 ELSE b
        ELSE b

(***************************************************************************)
(* SpecOffset: find_offset, one candidate shift per step                   *)
(***************************************************************************)
\* the scenes the grids are cut from; (i, j) ranges over all integers
SceneKinds == {"texture", "rows", "stripes", "checker", "balanced", "flat"}

Pattern(kind, i, j) ==
    CASE kind = "texture"  -> ((3 * i * i + 5 * j * j + 7 * i * j + i + 2 * j) % 5) % 3
      [] kind = "rows"     -> i % 3
      [] kind = "stripes"  -> i % 2
      [] kind = "checker"  -> (i + j) % 2
      [] kind = "balanced" -> (IF i % 4 = 0 THEN 0 ELSE IF i % 4 = 3 THEN 2 ELSE 1)
      [] kind = "flat"     -> 1

HoleRow == (GridRows + 1) \div 2
HoleCol == (GridCols + 1) \div 2

\* the reference grid, and a test grid that shows the same scene displaced
\* by (sy, sx), possibly inverted, each possibly with one non-finite pixel
RefGrid(kind, hole) ==
    [i \in 1..GridRows |-> [j \in 1..GridCols |->
        IF hole \in {"ref", "both"} /\ i = HoleRow /\ j = HoleCol THEN NaN
        ELSE Pattern(kind, i, j)]]

TestGrid(kind, hole, neg, sy, sx) ==
    [i \in 1..GridRows |-> [j \in 1..GridCols |->
        IF hole \in {"test", "both"} /\ i = HoleRow /\ j = HoleCol THEN NaN
        ELSE IF neg THEN 2 - Pattern(kind, i + sy, j + sx)
        ELSE Pattern(kind, i + sy, j + sx)]]

\* line 64: max_shift=3
DEFAULT_MAX_SHIFT == 3

\* the values of max_shift: the small ones and the default
ShiftLimits == (0..MaxShift) \cup {DEFAULT_MAX_SHIFT}

\* a pair of grids where the only pixel of the reference that differs from
\* the others lies under a patch of the test grid that equals the test mean
NearHole(i, j) ==
    /\ i \in (HoleRow - 1)..(HoleRow + 1)
    /\ j \in (HoleCol - 1)..(HoleCol + 1)

MaskedRef ==
    [i \in 1..GridRows |-> [j \in 1..GridCols |->
        IF i = HoleRow /\ j = HoleCol THEN 0 ELSE 2]]

MaskedTest ==
    [i \in 1..GridRows |-> [j \in 1..GridCols |->
        IF NearHole(i, j) \/ (i = 1 /\ j = 2) THEN 1
        ELSE IF (i + j) % 2 = 0 THEN 0 ELSE 2]]

OffsetInputs ==
    {[ref |-> MaskedRef, test |-> MaskedTest, max_shift |-> 1]} \cup
    {[ref |-> RefGrid(kind, hole),
      test |-> TestGrid(kind, hole, neg, sy, sx),
      max_shift |-> m] :
        kind \in SceneKinds, hole \in {"none", "ref", "test", "both"},
        neg \in BOOLEAN,
        sy \in (-MaxShift)..MaxShift, sx \in (-MaxShift)..MaxShift,
        m \in ShiftLimits}

InitOffset ==
    /\ pc = "start"
    /\ off_in \in OffsetInputs
    /\ off_norm = [sref |-> 0, stest |-> 0]
    /\ dy = 0
    /\ dx = 0
    /\ best = [shift |-> <<0, 0>>]
    /\ evaluated = <<>>
    /\ off_ret = None
    /\ LoadIdle
    /\ SeriesIdle
    /\ SlopeIdle
    /\ LiaIdle
    /\ ResolveIdle
    /\ PixelIdle
    /\ MetricIdle
    /\ JobIdle

\* lines 65-73: fill, degenerate-input return, z-scoring, best = (-999, (0, 0))
FindOffsetEnter ==
    /\ pc = "start"
    /\ IF std_below_eps(off_in.ref) \/ std_below_eps(off_in.test)
       THEN /\ pc' = "returned"
            /\ off_ret' = <<0, 0>>
            /\ UNCHANGED <<off_norm, dy, dx, best>>
       ELSE /\ pc' = "scan"
            /\ off_norm' = [sref  |-> GridSum(off_in.ref, NPixels, 1),
                            stest |-> GridSum(off_in.test, NPixels, 1)]
            /\ dy' = -off_in.max_shift
            /\ dx' = -off_in.max_shift
            /\ best' = initial_best
            /\ UNCHANGED off_ret
    /\ UNCHANGED <<off_in, evaluated, loadVars, seriesVars, slopeVars, liaVars, resolveVars,
                   pixelVars,
                   metricVars, jobVars>>

\* mutant: the outer loop counter does not advance
ScanStep_Revisit ==
    /\ pc = "scan"
    /\ dy <= off_in.max_shift
    /\ best' = evaluate_candidate(off_in, off_norm, best, dy, dx)
    /\ evaluated' = Append(evaluated, <<dy, dx>>)
    /\ IF dx < off_in.max_shift
       THEN dx' = dx + 1 /\ dy' = dy
       ELSE dx' = -off_in.max_shift /\ dy' = dy
    /\ UNCHANGED <<pc, off_in, off_norm, off_ret, loadVars, seriesVars,
                   slopeVars, liaVars, resolveVars,
                   pixelVars,
                   metricVars, jobVars>>

\* lines 74-81: one iteration of the inner loop, then the loop counters
\* advance: dx innermost, dy outermost, both ascending
ScanStep ==
    /\ pc = "scan"
    /\ dy <= off_in.max_shift
    /\ best' = evaluate_candidate(off_in, off_norm, best, dy, dx)
    /\ evaluated' = Append(evaluated, <<dy, dx>>)
    /\ IF dx < off_in.max_shift
       THEN dx' = dx + 1 /\ dy' = dy
       ELSE dx' = -off_in.max_shift /\ dy' = dy + 1
    /\ UNCHANGED <<pc, off_in, off_norm, off_ret, loadVars, seriesVars,
                   slopeVars, liaVars, resolveVars,
                   pixelVars,
                   metricVars, jobVars>>

\* line 82: return best[1]
ReturnBest ==
    /\ pc = "scan"
    /\ dy > off_in.max_shift
    /\ pc' = "returned"
    /\ off_ret' = best.shift
    /\ UNCHANGED <<off_in, off_norm, dy, dx, best, evaluated, loadVars,
                   seriesVars, slopeVars, liaVars, resolveVars,
                   pixelVars,
                   metricVars, jobVars>>

NextOffset == FindOffsetEnter \/ ScanStep \/ ReturnBest

SpecOffset == InitOffset /\ [][NextOffset]_vars

(***************************************************************************)
(* _data_utils.py: find_pyrosar_file; _analyze_lia.py: get_bs_path         *)
(*                                                                         *)
(* A file name is the sequence of its parts, without the extension .tif:   *)
(* the separators "_" and the strings between them, where a string is cut  *)
(* further around a polarization or the word cropped that it contains, so  *)
(* that a glob pattern sees them wherever they occur.  A path is the pair  *)
(* <<directory, name>>.  A directory is known by its files, kept as a list; *)
(* the order in which a scan of the directory yields them is not a         *)
(* property of the files: Path.glob yields the order of os.scandir, which  *)
(* is arbitrary, so every scan may yield any permutation of the list.      *)
(***************************************************************************)
\* pol.upper()
upper(pol) == CASE pol = "vv" -> "VV" [] pol = "vh" -> "VH" [] pol = "hh" -> "HH"

\* s[1], the second character of a polarization
second_char(s) == CASE s = "VV" -> "V" [] s = "VH" -> "H" [] s = "HH" -> "H"

\* "V" + c
V_plus(c) == IF c = "V" THEN "VV" ELSE "VH"

\* lines 23-24: base / date_str / aoi_key
target_dir(dem_type) ==
    IF dem_type = "kartverket" THEN "pyrosar_kartverket" ELSE "pyrosar_copernicus"

\* line 27: f"{aoi_key}_V{pol.upper()[1]}_gamma0-rtc_cropped.tif"
cropped_pattern(aoi, pol) ==
    <<aoi, "_", V_plus(second_char(upper(pol))), "_", "gamma0-rtc", "_",
      "cropped">>

\* line 34: f"{aoi_key}_{pol.upper()}_gamma0-rtc_cropped.tif"
alt_pattern(aoi, pol) ==
    <<aoi, "_", upper(pol), "_", "gamma0-rtc", "_", "cropped">>

\* Path.exists()
exists(f, path) == \E i \in 1..Len(f[path[1]]) : f[path[1]][i] = path[2]

\* the orders a scan of the directory may yield its files in: every
\* permutation of the positions of its list
ScanOrders(f, dir) ==
    IF f[dir] = <<>> THEN {<<>>} ELSE Permutations(1..Len(f[dir]))

\* the listing a scan of the directory yields in the order k: the file at
\* position k[i] of the list comes i-th.  A call globs the directory once
\* per pattern and returns the first match of the pattern that decides, so
\* k is the order of that scan
scandir(f, dir, k) == [i \in 1..Len(f[dir]) |-> f[dir][k[i]]]

\* line 41 and _analyze_lia.py line 36: the pattern *{POL}*cropped*.tif; POL
\* and cropped may be parts of longer strings
matches_cropped(name, POL) ==
    \E a, b \in 1..Len(name) : a < b /\ name[a] = POL /\ name[b] = "cropped"

\* line 46: the pattern *_{POL}_gamma0-rtc.tif
matches_original(name, POL) ==
    /\ Len(name) >= 4
    /\ name[Len(name) - 3] = "_"
    /\ name[Len(name) - 2] = POL
    /\ name[Len(name) - 1] = "_"
    /\ name[Len(name)] = "gamma0-rtc"

\* mutant: the uncropped original is looked for before any cropped file
find_pyrosar_file_OriginalFirst(f, aoi, pol, dem_type, k) ==
    LET dir == target_dir(dem_type)
        cropped_path == <<dir, cropped_pattern(aoi, pol)>>
        alt_path == <<dir, alt_pattern(aoi, pol)>>
        cropped_matches ==
            SelectSeq(scandir(f, dir, k), LAMBDA n : matches_cropped(n, upper(pol)))
        original_matches ==
            SelectSeq(scandir(f, dir, k), LAMBDA n : matches_original(n, upper(pol)))
    IN  IF exists(f, cropped_path) THEN cropped_path
        ELSE IF exists(f, alt_path) THEN alt_path
        ELSE IF original_matches # <<>> THEN <<dir, original_matches[1]>>
        ELSE IF cropped_matches # <<>> THEN <<dir, cropped_matches[1]>>
        ELSE None

\* lines 19-51
find_pyrosar_file(f, aoi, pol, dem_type, k) ==
    LET dir == target_dir(dem_type)
        cropped_path == <<dir, cropped_pattern(aoi, pol)>>
        alt_path == <<dir, alt_pattern(aoi, pol)>>
        cropped_matches ==
            SelectSeq(scandir(f, dir, k), LAMBDA n : matches_cropped(n, upper(pol)))
        original_matches ==
            SelectSeq(scandir(f, dir, k), LAMBDA n : matches_original(n, upper(pol)))
    IN  IF exists(f, cropped_path) THEN cropped_path
        ELSE IF exists(f, alt_path) THEN alt_path
        ELSE IF cropped_matches # <<>> THEN <<dir, cropped_matches[1]>>
        ELSE IF original_matches # <<>> THEN <<dir, original_matches[1]>>
        ELSE None

\* _analyze_lia.py lines 26-41
get_bs_path(f, aoi, method, pol, k) ==
    CASE method = "hyp3_gamma" -> <<"hyp3", <<aoi, "_", "hyp3", "_", pol>>>>
      [] method = "gee_standard" -> <<"gee", <<aoi, "_", "standard", "_", pol>>>>
      [] method = "gee_s1ard_copernicus" ->
            <<"gee", <<aoi, "_", "s1ard", "_", "copernicus", "_", pol>>>>
      [] method = "gee_s1ard_kartverket" ->
            <<"gee", <<aoi, "_", "s1ard", "_", "kartverket", "_", pol>>>>
      [] method = "pyrosar_kartverket" ->
            LET matches == SelectSeq(scandir(f, "pyrosar_kartverket", k),
                                     LAMBDA n : matches_cropped(n, upper(pol)))
            IN  IF matches # <<>> THEN <<"pyrosar_kartverket", matches[1]>> ELSE None
      [] method = "pyrosar_copernicus" ->
            LET matches == SelectSeq(scandir(f, "pyrosar_copernicus", k),
                                     LAMBDA n : matches_cropped(n, upper(pol)))
            IN  IF matches # <<>> THEN <<"pyrosar_copernicus", matches[1]>> ELSE None
      [] OTHER -> None

\* _data_utils.py lines 129-131: the dem_type load_all_methods passes for a method
dem_type_of(method) == IF method = "pyrosar_kartverket" THEN "kartverket" ELSE "copernicus"

(***************************************************************************)
(* SpecResolve: repeated resolution of one unit's backscatter file         *)
(***************************************************************************)
\* the files a PyroSAR unit directory may hold
FileNames ==
    << <<"jorde", "_", "VV", "_", "gamma0-rtc", "_", "cropped">>,
       <<"jorde", "_", "VH", "_", "gamma0-rtc", "_", "cropped">>,
       <<"jorde", "_", "HH", "_", "gamma0-rtc", "_", "cropped">>,
       <<"S1A", "_", "VV", "_", "gamma0-rtc">>,
       <<"S1B", "_", "VV", "_", "gamma0-rtc">>,
       <<"jorde", "_", "localIncidenceAngle", "_", "cropped">>,
       <<"jorde", "_", "x", "VV", "x", "_", "gamma0-rtc", "_", "cropped">>,
       <<"jorde", "_", "VV", "_", "gamma0-rtc", "_", "un", "cropped", "2">> >>

\* the list of a directory that holds the files numbered in S
Listing(S) == SelectSeq(FileNames, LAMBDA n : \E i \in S : FileNames[i] = n)

PyrosarDirs == {"pyrosar_kartverket", "pyrosar_copernicus"}

\* one directory holds any MaxFiles of the files or fewer, the other one
\* none or the first MaxFiles of them
FileTrees ==
    {[d \in PyrosarDirs |-> IF d = full THEN l ELSE o] :
        full \in PyrosarDirs,
        l \in {Listing(S) : S \in {T \in SUBSET (1..Len(FileNames)) :
                                       Cardinality(T) <= MaxFiles}},
        o \in {<<>>, SubSeq(FileNames, 1, MaxFiles)}}

Polarizations == {"vv", "vh", "hh"}

InitResolve ==
    /\ pc = "resolve"
    /\ fs \in FileTrees
    /\ res_args \in [method : MethodKeys, pol : Polarizations]
    /\ found = <<>>
    /\ bs_paths = <<>>
    /\ LoadIdle
    /\ SeriesIdle
    /\ SlopeIdle
    /\ LiaIdle
    /\ OffsetIdle
    /\ PixelIdle
    /\ MetricIdle
    /\ JobIdle

\* load_all_methods resolves the PyroSAR file of the unit once more; the
\* scan of the directory yields its files in any order
FindPyrosarFile ==
    /\ pc = "resolve"
    /\ res_args.method \in {"pyrosar_kartverket", "pyrosar_copernicus"}
    /\ Len(found) < MaxCalls
    /\ \E k \in ScanOrders(fs, target_dir(dem_type_of(res_args.method))) :
          found' = Append(found, find_pyrosar_file(fs, AOI_KEYS[1], res_args.pol,
                                                   dem_type_of(res_args.method),
                                                   k))
    /\ UNCHANGED <<pc, fs, res_args, bs_paths, loadVars, seriesVars, slopeVars,
                   liaVars, offsetVars, pixelVars,
                   metricVars, jobVars>>

\* run_analysis resolves the backscatter file of the unit once more; for a
\* PyroSAR method the directory is scanned and yields its files in any order
GetBsPath ==
    /\ pc = "resolve"
    /\ Len(bs_paths) < MaxCalls
    /\ \E k \in IF res_args.method \in {"pyrosar_kartverket", "pyrosar_copernicus"}
               THEN ScanOrders(fs, target_dir(dem_type_of(res_args.method)))
               ELSE {<<>>} :
          bs_paths' = Append(bs_paths, get_bs_path(fs, AOI_KEYS[1], res_args.method,
                                                   res_args.pol, k))
    /\ UNCHANGED <<pc, fs, res_args, found, loadVars, seriesVars, slopeVars,
                   liaVars, offsetVars, pixelVars,
                   metricVars, jobVars>>

NextResolve == FindPyrosarFile \/ GetBsPath

SpecResolve == InitResolve /\ [][NextResolve]_vars

(***************************************************************************)
(* _data_utils.py: load_raster, alignment of load_all_methods;             *)
(* _analyze_lia.py: load_raster, masking and alignment of run_analysis;    *)
(* _analyze_extended.py: re-alignment; _analyze.py: calculate_stats        *)
(*                                                                         *)
(* A grid is [shape, cells, den]: cells holds the pixels row by row, and   *)
(* the value of a finite pixel is cells[k] / den (den is 1 until a         *)
(* resampling interpolates).  NaN and NegInf stand for themselves.         *)
(***************************************************************************)
\* -inf, the value of np.log10(0)
NegInf == -9999

\* np.isfinite on a pixel
np_isfinite(v) == v # NaN /\ v # NegInf

\* the shapes of the rasters of a unit: at most MaxPixels pixels
PixelShapes ==
    {<<r, c>> : r \in 1..MaxPixels, c \in 1..MaxPixels} \cap
    {s \in (1..MaxPixels) \X (1..MaxPixels) : s[1] * s[2] <= MaxPixels}

\* src.read(1): the pixel values a raster file may hold (linear power)
PixelValues == {-1, 0, 1, 100, NaN}

Rasters ==
    UNION {[shape : {s}, cells : [1..(s[1] * s[2]) -> PixelValues], den : {1}] :
              s \in PixelShapes}

\* the grid that stands where no grid was loaded
NoGrid == [shape |-> None, cells |-> <<>>, den |-> 1]

\* the states of a path argument: None, the path of no file, the path of a file
PathStates == {"None", "missing", "present"}

MapCells(grid, F(_)) ==
    [grid EXCEPT !.cells = [k \in 1..Len(grid.cells) |-> F(grid.cells[k])]]

\* mutant: only negative pixels are masked
mask_invalid_Negative(v) == IF v # NaN /\ v < 0 THEN NaN ELSE v

\* data[data <= 0] = np.nan (a NaN pixel compares False and stays NaN)
mask_invalid(v) == IF v # NaN /\ v <= 0 THEN NaN ELSE v

\* np.log10 on the pixel values of a raster: nan for a negative pixel and
\* for nan, -inf for 0
log10(v) ==
    CASE v = NaN -> NaN
      [] v = NegInf -> NaN
      [] v < 0 -> NaN
      [] v = 0 -> NegInf
      [] v = 1 -> 0
      [] v = 10 -> 1
      [] v = 100 -> 2

\* 10 * np.log10(data)
to_db(v) == IF np_isfinite(log10(v)) THEN 10 * log10(v) ELSE log10(v)

CellSet(grid) == {grid.cells[k] : k \in 1..Len(grid.cells)}

\* mutant: the file is opened whenever a path is given
load_raster_NoExistsCheck(path, raw, as_db) ==
    IF path = "None"
    THEN [ok |-> FALSE, data |-> NoGrid, opened |-> FALSE, raised |-> FALSE, logged |-> {}]
    ELSE IF path = "missing"
    THEN [ok |-> FALSE, data |-> NoGrid, opened |-> TRUE, raised |-> TRUE, logged |-> {}]
    ELSE LET masked == MapCells(raw, mask_invalid)
         IN  [ok |-> TRUE,
              data |-> IF as_db THEN MapCells(masked, to_db) ELSE masked,
              opened |-> TRUE, raised |-> FALSE,
              logged |-> IF as_db THEN CellSet(masked) ELSE {}]

\* _data_utils.py lines 76-91.  ok: a grid is returned (else None, None);
\* opened: rasterio.open was called; raised: an exception left the function;
\* logged: the pixel values that were passed to np.log10
load_raster(path, raw, as_db) ==
    IF path = "None" \/ path # "present"
    THEN [ok |-> FALSE, data |-> NoGrid, opened |-> FALSE, raised |-> FALSE, logged |-> {}]
    ELSE LET masked == MapCells(raw, mask_invalid)
         IN  [ok |-> TRUE,
              data |-> IF as_db THEN MapCells(masked, to_db) ELSE masked,
              opened |-> TRUE, raised |-> FALSE,
              logged |-> IF as_db THEN CellSet(masked) ELSE {}]

\* _analyze_lia.py lines 19-23: the raster as read, or None
lia_load_raster(path, raw) ==
    IF path = "None" \/ path # "present"
    THEN [ok |-> FALSE, data |-> NoGrid, opened |-> FALSE, raised |-> FALSE, logged |-> {}]
    ELSE [ok |-> TRUE, data |-> raw, opened |-> TRUE, raised |-> FALSE, logged |-> {}]

\* _analyze_lia.py lines 116-117: bs[bs <= 0] = np.nan; bs_db = 10 * np.log10(bs)
mask_and_db(grid) ==
    LET masked == MapCells(grid, mask_invalid)
    IN  [data |-> MapCells(masked, to_db), logged |-> CellSet(masked)]

\* scipy.ndimage.zoom along one axis, order=1: output index i (from 0) reads
\* the input at i * (n_in - 1) / (n_out - 1), between the taps lo and hi; the
\* tap past the last pixel is the mirrored one; w is the weight of hi over d
ZoomTaps(n_in, n_out, i) ==
    LET d == IF n_out > 1 THEN n_out - 1 ELSE 1
        pos == IF n_out > 1 THEN i * (n_in - 1) ELSE i
        lo == pos \div d
        hi == IF lo + 1 <= n_in - 1 THEN lo + 1
              ELSE IF n_in >= 2 THEN n_in - 2 ELSE 0
    IN  [lo |-> lo, hi |-> hi, w |-> pos % d, d |-> d]

\* the interpolated pixel: a NaN tap makes it NaN also at weight 0
ZoomPixel(grid, tr, tc) ==
    LET cols == grid.shape[2]
        at(r, c) == grid.cells[r * cols + c + 1]
        taps == << <<at(tr.lo, tc.lo), (tr.d - tr.w) * (tc.d - tc.w)>>,
                   <<at(tr.lo, tc.hi), (tr.d - tr.w) * tc.w>>,
                   <<at(tr.hi, tc.lo), tr.w * (tc.d - tc.w)>>,
                   <<at(tr.hi, tc.hi), tr.w * tc.w>> >>
    IN  IF \E t \in 1..4 : taps[t][1] = NaN THEN NaN
        ELSE IF \E t \in 1..4 : taps[t][1] = NegInf /\ taps[t][2] = 0 THEN NaN
        ELSE IF \E t \in 1..4 : taps[t][1] = NegInf THEN NegInf
        ELSE taps[1][1] * taps[1][2] + taps[2][1] * taps[2][2]
             + taps[3][1] * taps[3][2] + taps[4][1] * taps[4][2]

\* zoom(data, zoom_factors, order=1) with the factors ref_shape / data.shape
zoom(grid, ref_shape) ==
    LET out == zoom_shape(grid.shape, zoom_factors(ref_shape, grid.shape))
        tr(k) == ZoomTaps(grid.shape[1], out[1], (k - 1) \div out[2])
        tc(k) == ZoomTaps(grid.shape[2], out[2], (k - 1) % out[2])
    IN  [shape |-> out,
         cells |-> [k \in 1..(out[1] * out[2]) |-> ZoomPixel(grid, tr(k), tc(k))],
         den |-> grid.den * tr(1).d * tc(1).d]

\* mutant: no grid is resampled
align_Never(grid, ref_shape) == grid

\* _data_utils.py lines 136-140 (ref_shape may be None), _analyze_extended.py
\* lines 51-53 and _analyze_lia.py lines 129-130 (ref_shape is a shape)
align(grid, ref_shape) ==
    IF NeedsResample(ref_shape, grid.shape) THEN zoom(grid, ref_shape) ELSE grid

SumCells(S, grid, pow) ==
    LET idx == {k \in 1..Len(grid.cells) : grid.cells[k] \in S}
        F[T \in SUBSET idx] ==
            IF T = {} THEN 0
            ELSE LET k == CHOOSE x \in T : TRUE
                 IN  (IF pow = 2 THEN grid.cells[k] * grid.cells[k] ELSE grid.cells[k])
                     + F[T \ {k}]
    IN  F[idx]

\* mutant: every pixel is counted
calculate_stats_CountAll(grid) ==
    LET n == Len(grid.cells)
    IN  IF n = 0
        THEN [mean |-> Undefined, std |-> Undefined, cv |-> Undefined, n |-> 0]
        ELSE [mean |-> Undefined, std |-> Undefined, cv |-> Undefined, n |-> n]

\* _analyze.py lines 22-40.  mean is the quotient [num, den]; std is kept as
\* its square, the variance [num, den], and cv as the square of std / |mean|
\* (cv is 100 times its root); a zero mean makes cv nan (std 0) or inf
calculate_stats(grid) ==
    LET finite == {v \in CellSet(grid) : np_isfinite(v)}
        n == Cardinality({k \in 1..Len(grid.cells) : np_isfinite(grid.cells[k])})
        s == SumCells(finite, grid, 1)
        ss == SumCells(finite, grid, 2)
        var == [num |-> n * ss - s * s, den |-> n * n * grid.den * grid.den]
    IN  IF n = 0
        THEN [mean |-> Undefined, std |-> Undefined, cv |-> Undefined, n |-> 0]
        ELSE [mean |-> [num |-> s, den |-> n * grid.den],
              std |-> var,
              cv |-> IF s # 0 THEN [num |-> var.num, den |-> s * s]
                     ELSE IF var.num = 0 THEN Undefined ELSE [inf |-> TRUE],
              n |-> n]

(***************************************************************************)
(* SpecPixels: one raster from its file to the statistics                  *)
(***************************************************************************)
PixelLoaders == {"load_all_methods", "run_analysis"}

PixelInputs ==
    [loader : PixelLoaders, path : {"present"}, raw : Rasters, as_db : BOOLEAN]
    \cup [loader : PixelLoaders, path : PathStates \ {"present"},
          raw : {NoGrid}, as_db : BOOLEAN]

InitPixels ==
    /\ pc = "load_raster"
    /\ px_in \in PixelInputs
    /\ px_data = <<>>
    /\ px_log = {}
    /\ px_opened = FALSE
    /\ px_stats = <<>>
    /\ LoadIdle
    /\ SeriesIdle
    /\ SlopeIdle
    /\ LiaIdle
    /\ OffsetIdle
    /\ ResolveIdle
    /\ MetricIdle
    /\ JobIdle

\* one stage of the raster: what was done, with which reference shape, and
\* the grid that came out
Stage(op, r, ref_shape) ==
    [op |-> op, ok |-> r.ok, raised |-> r.raised, grid |-> r.data, ref_shape |-> ref_shape]

Grid(data) == [ok |-> TRUE, raised |-> FALSE, data |-> data]

Last(s) == s[Len(s)]

\* load_raster(path, as_db=as_db) of _data_utils.py
LoadRaster ==
    /\ pc = "load_raster"
    /\ px_in.loader = "load_all_methods"
    /\ LET r == load_raster(px_in.path, px_in.raw, px_in.as_db)
       IN  /\ px_data' = <<Stage("load_raster", r, None)>>
           /\ px_log' = r.logged
           /\ px_opened' = r.opened
           /\ pc' = IF r.ok THEN "loaded" ELSE "absent"
    /\ UNCHANGED <<px_in, px_stats, loadVars, seriesVars, slopeVars, liaVars,
                   offsetVars, resolveVars,
                   metricVars, jobVars>>

\* run_analysis: load_raster(get_bs_path(...)) of _analyze_lia.py, lines 113-115
LiaLoadRaster ==
    /\ pc = "load_raster"
    /\ px_in.loader = "run_analysis"
    /\ LET r == lia_load_raster(px_in.path, px_in.raw)
       IN  /\ px_data' = <<Stage("load_raster", r, None)>>
           /\ px_log' = r.logged
           /\ px_opened' = r.opened
           /\ pc' = IF r.ok THEN "read" ELSE "absent"
    /\ UNCHANGED <<px_in, px_stats, loadVars, seriesVars, slopeVars, liaVars,
                   offsetVars, resolveVars,
                   metricVars, jobVars>>

\* run_analysis, lines 116-117
LiaMaskAndDb ==
    /\ pc = "read"
    /\ LET r == mask_and_db(Last(px_data).grid)
       IN  /\ px_data' = Append(px_data, Stage("mask_and_db", Grid(r.data), None))
           /\ px_log' = px_log \cup r.logged
    /\ pc' = "loaded"
    /\ UNCHANGED <<px_in, px_opened, px_stats, loadVars, seriesVars, slopeVars,
                   liaVars, offsetVars, resolveVars,
                   metricVars, jobVars>>

\* load_all_methods, lines 136-140: the PyroSAR grid against ref_shape, which
\* is None when no earlier grid has set it
AlignPyrosar ==
    /\ pc = "loaded"
    /\ px_in.loader = "load_all_methods"
    /\ \E ref_shape \in PixelShapes \cup {None} :
          px_data' = Append(px_data,
              Stage("align", Grid(align(Last(px_data).grid, ref_shape)), ref_shape))
    /\ pc' = "aligned"
    /\ UNCHANGED <<px_in, px_log, px_opened, px_stats, loadVars, seriesVars,
                   slopeVars, liaVars, offsetVars, resolveVars,
                   metricVars, jobVars>>

\* run_analysis, lines 129-130: the backscatter grid against the shape of the
\* reference grid
AlignLia ==
    /\ pc = "loaded"
    /\ px_in.loader = "run_analysis"
    /\ \E ref_shape \in PixelShapes :
          px_data' = Append(px_data,
              Stage("align", Grid(align(Last(px_data).grid, ref_shape)), ref_shape))
    /\ pc' = "aligned"
    /\ UNCHANGED <<px_in, px_log, px_opened, px_stats, loadVars, seriesVars,
                   slopeVars, liaVars, offsetVars, resolveVars,
                   metricVars, jobVars>>

\* run_extended, lines 50-53: a grid of load_all_methods(as_db=True) against
\* the shape of the reference grid of the unit
RealignExtended ==
    /\ pc = "aligned"
    /\ px_in.loader = "load_all_methods"
    /\ px_in.as_db
    /\ \E ref_shape \in PixelShapes :
          px_data' = Append(px_data,
              Stage("realign", Grid(align(Last(px_data).grid, ref_shape)), ref_shape))
    /\ pc' = "realigned"
    /\ UNCHANGED <<px_in, px_log, px_opened, px_stats, loadVars, seriesVars,
                   slopeVars, liaVars, offsetVars, resolveVars,
                   metricVars, jobVars>>

\* analyze_single_date, line 85: calculate_stats on a grid of load_all_methods
CalculateStats ==
    /\ pc = "aligned"
    /\ px_in.loader = "load_all_methods"
    /\ px_stats' = calculate_stats(Last(px_data).grid)
    /\ pc' = "calculate_stats"
    /\ UNCHANGED <<px_in, px_data, px_log, px_opened, loadVars, seriesVars,
                   slopeVars, liaVars, offsetVars, resolveVars,
                   metricVars, jobVars>>

NextPixels ==
    \/ LoadRaster
    \/ LiaLoadRaster
    \/ LiaMaskAndDb
    \/ AlignPyrosar
    \/ AlignLia
    \/ RealignExtended
    \/ CalculateStats

SpecPixels == InitPixels /\ [][NextPixels]_vars

(***************************************************************************)
(* _analyze.py: calculate_rmse, calculate_bias, calculate_correlation;     *)
(* _analyze_extended.py: calc_rmse                                         *)
(*                                                                         *)
(* The two grids of a comparison have one shape and are kept flattened: a  *)
(* sequence of pixels in dB, NaN for a non-finite one.  A float result is  *)
(* Undefined (np.nan) or an exact quotient.                                *)
(***************************************************************************)
\* mask = np.isfinite(data1) & np.isfinite(data2)
joint_mask(data1, data2) ==
    {k \in 1..Len(data1) : np_isfinite(data1[k]) /\ np_isfinite(data2[k])}

\* data[mask], in pixel order
Take(data, mask) ==
    LET idx == SelectSeq([k \in 1..Len(data) |-> k], LAMBDA k : k \in mask)
    IN  [i \in 1..Len(idx) |-> data[idx[i]]]

\* data1[mask] - data2[mask]
Diff(x, y) == [i \in 1..Len(x) |-> x[i] - y[i]]

\* _analyze.py lines 43-49; the root sqrt(num / den) is kept as its square
calculate_rmse(data1, data2) ==
    LET mask == joint_mask(data1, data2)
        diff == Diff(Take(data1, mask), Take(data2, mask))
    IN  IF Cardinality(mask) = 0 THEN Undefined
        ELSE [sq_num |-> SumProd(diff, diff), sq_den |-> Len(diff)]

\* stats.pearsonr(x, y): r as np.corrcoef computes it, nan when one sample
\* is constant; p is the two-sided significance of r for n samples,
\* kept as its arguments
pearsonr(x, y) ==
    LET r == corrcoef([n |-> Len(x), sx |-> SumSeq(x), sy |-> SumSeq(y),
                       sxx |-> SumProd(x, x), syy |-> SumProd(y, y),
                       sxy |-> SumProd(x, y)])
    IN  [r |-> r, p |-> IF r = Undefined THEN Undefined ELSE [of_r |-> r, n |-> Len(x)]]

\* mutant: the difference is taken the other way round
calculate_bias_Swapped(data1, data2) ==
    LET mask == joint_mask(data1, data2)
        diff == Diff(Take(data2, mask), Take(data1, mask))
    IN  IF Cardinality(mask) = 0 THEN Undefined
        ELSE [num |-> SumSeq(diff), den |-> Len(diff)]

\* _analyze.py lines 52-57: np.mean(data1[mask] - data2[mask])
calculate_bias(data1, data2) ==
    LET mask == joint_mask(data1, data2)
        diff == Diff(Take(data1, mask), Take(data2, mask))
    IN  IF Cardinality(mask) = 0 THEN Undefined
        ELSE [num |-> SumSeq(diff), den |-> Len(diff)]

\* mutant: the correlation is computed for every mask
calculate_correlation_NoGate(data1, data2) ==
    LET mask == joint_mask(data1, data2)
    IN  pearsonr(Take(data1, mask), Take(data2, mask))

\* line 63: np.sum(mask) < 3
MIN_CORR_PIXELS == 3

\* _analyze.py lines 60-66
calculate_correlation(data1, data2) ==
    LET mask == joint_mask(data1, data2)
    IN  IF Cardinality(mask) < MIN_CORR_PIXELS
        THEN [r |-> Undefined, p |-> Undefined]
        ELSE pearsonr(Take(data1, mask), Take(data2, mask))

\* _analyze_extended.py line 25: valid.sum() < 10
MIN_RMSE_PIXELS == 10

\* _analyze_extended.py lines 23-27
calc_rmse(test, ref) ==
    LET mask == joint_mask(test, ref)
        diff == Diff(Take(test, mask), Take(ref, mask))
    IN  IF Cardinality(mask) < MIN_RMSE_PIXELS THEN Undefined
        ELSE [sq_num |-> SumProd(diff, diff), sq_den |-> Len(diff)]

(***************************************************************************)
(* SpecMetrics: the pairwise metrics of one method grid and the reference  *)
(***************************************************************************)
GridKinds == {"flat", "ramp", "saw", "down"}

\* the k-th pixel of a grid of the kind, in dB
GridPixel(kind, k) ==
    CASE kind = "flat" -> -12
      [] kind = "ramp" -> k - 15
      [] kind = "saw"  -> (k % 3) - 10
      [] kind = "down" -> -(2 * k)

\* a grid of len pixels whose first `head` or last `tail` pixels are non-finite
MetricGrid(kind, len, head, tail) ==
    [k \in 1..len |-> IF k <= head \/ k > len - tail THEN NaN ELSE GridPixel(kind, k)]

MetricInputs ==
    {[a |-> MetricGrid(ka, len, ha, 0), b |-> MetricGrid(kb, len, 0, hb)] :
        ka \in GridKinds, kb \in GridKinds,
        len \in 1..MaxLen, ha \in 0..MaxLen, hb \in 0..MaxLen}

InitMetrics ==
    /\ pc = "compare"
    /\ mt_in \in MetricInputs
    /\ mt_out = <<>>
    /\ LoadIdle
    /\ SeriesIdle
    /\ SlopeIdle
    /\ LiaIdle
    /\ OffsetIdle
    /\ ResolveIdle
    /\ PixelIdle
    /\ JobIdle

\* analyze_inter_product, lines 127-129: data is the method grid a, ref_data
\* the reference grid b
ComputeRowMetrics ==
    /\ pc = "compare"
    /\ mt_out' = [fn |-> "analyze_inter_product",
                  rmse |-> calculate_rmse(mt_in.a, mt_in.b),
                  bias |-> calculate_bias(mt_in.a, mt_in.b),
                  r |-> calculate_correlation(mt_in.a, mt_in.b).r,
                  p |-> calculate_correlation(mt_in.a, mt_in.b).p]
    /\ pc' = "row"
    /\ UNCHANGED <<mt_in, loadVars, seriesVars, slopeVars, liaVars, offsetVars,
                   resolveVars, pixelVars, jobVars>>

\* run_extended, line 70: row['rmse_vs_ref'] = calc_rmse(bs, ref_data)
ComputeExtendedRmse ==
    /\ pc = "compare"
    /\ mt_out' = [fn |-> "run_extended",
                  rmse_vs_ref |-> calc_rmse(mt_in.a, mt_in.b)]
    /\ pc' = "row"
    /\ UNCHANGED <<mt_in, loadVars, seriesVars, slopeVars, liaVars, offsetVars,
                   resolveVars, pixelVars, jobVars>>

NextMetrics == ComputeRowMetrics \/ ComputeExtendedRmse

SpecMetrics == InitMetrics /\ [][NextMetrics]_vars

(***************************************************************************)
(* _process_hyp3.py: submit_jobs                                           *)
(*                                                                         *)
(* A date is its string YYYYMMDD; a job name is the pair of the prefix and *)
(* the date.  The services outside the program (the environment of the    *)
(* process, the SAFE directory, the ASF search, HyP3) answer               *)
(* nondeterministically: freely for the dates of one campaign, and in one  *)
(* way, chosen with the call, for all other dates of COMPARISON_DATES.     *)
(***************************************************************************)
\* the campaign whose dates the services answer freely for: three
\* consecutive dates of COMPARISON_DATES, 20170630, 20170707 and 20170714
CampaignDates == SubSeq(COMPARISON_DATES, 9, 11)

JobDates == {CampaignDates[i] : i \in 1..Len(CampaignDates)}

RECURSIVE SeqsUpTo(_, _)
SeqsUpTo(S, n) ==
    IF n = 0 THEN {<<>>}
    ELSE SeqsUpTo(S, n - 1) \cup
         {Append(q, x) : q \in {r \in SeqsUpTo(S, n - 1) : Len(r) = n - 1}, x \in S}

\* the date lists a call is given: dates of the campaign in any order, no
\* date twice (the callers pass COMPARISON_DATES, whose dates are distinct)
DateLists ==
    {q \in SeqsUpTo(JobDates, MaxDates) :
        \A a, b \in 1..Len(q) : a # b => q[a] # q[b]}

\* line 76: job_name = f"Thesis_RTC_{date_str}"
job_name(date_str) == <<"Thesis_RTC", date_str>>

\* line 73: the date whose job is always resubmitted
RESUBMIT_DATE == "20170707"

\* lines 73-74: if date_str == '20170707': overwrite = True
overwrite_for(date_str, overwrite) ==
    IF date_str = RESUBMIT_DATE THEN TRUE ELSE overwrite

\* line 78: job_name in existing_jobs and not overwrite
job_exists_skip(date_str, existing_jobs, overwrite) ==
    job_name(date_str) \in existing_jobs /\ ~overwrite

\* lines 83-95: the scene name from the local SAFE file, else from the ASF
\* search, which may find nothing or fail
SceneSources == {"safe", "asf", "asf_none", "asf_error"}

\* lines 97-113: hyp3.submit_rtc_job returns or raises
SubmitOutcomes == {"submitted", "raised"}

\* what one iteration comes to when the job is not skipped as existing
SubmitEvents == {"asf_none", "asf_error"} \cup SubmitOutcomes

\* lines 83-113 for one date: no scene, a failed search, or the outcome of
\* hyp3.submit_rtc_job
submit_event(source, outcome) ==
    IF source \in {"asf_none", "asf_error"} THEN source ELSE outcome

\* lines 67-71: get_credentials raises ValueError when HYP3USERNAME or
\* HYP3PASSWORD is not set, HyP3() raises when the login is refused,
\* hyp3.find_jobs() raises when the service fails
EnterOutcomes == {"ok", "no_credentials", "login_error", "find_jobs_error"}

\* the dates whose jobs the HyP3 account may hold: the campaign and the
\* last date of COMPARISON_DATES
AccountDates == JobDates \cup {COMPARISON_DATES[Len(COMPARISON_DATES)]}

\* the calls: the arguments dates (empty or None when <<>>) and overwrite,
\* the jobs of the HyP3 account, and the answer of the services for the
\* dates outside the campaign
SubmitInputs ==
    {[dates |-> ds, arg_overwrite |-> ow, account_jobs |-> ex, elsewhere |-> ev] :
        ds \in DateLists, ow \in BOOLEAN,
        ex \in SUBSET {job_name(d) : d \in AccountDates},
        ev \in SubmitEvents}

\* the call submit_jobs(dates, overwrite) before its first statement
InitSubmit ==
    /\ pc = "call_submit_jobs"
    /\ \E in \in SubmitInputs :
          submit = [dates |-> in.dates,
                    arg_overwrite |-> in.arg_overwrite,
                    overwrite |-> in.arg_overwrite,
                    account_jobs |-> in.account_jobs,
                    elsewhere |-> in.elsewhere,
                    existing_jobs |-> {},
                    i |-> 1,
                    log |-> <<>>]
    /\ dl = <<>>
    /\ vm = <<>>
    /\ LoadIdle
    /\ SeriesIdle
    /\ SlopeIdle
    /\ LiaIdle
    /\ OffsetIdle
    /\ ResolveIdle
    /\ PixelIdle
    /\ MetricIdle

\* lines 67-71: the credentials, the login, dates = dates or
\* COMPARISON_DATES, and the jobs of the account; an exception ends the call
SubmitEnter ==
    /\ pc = "call_submit_jobs"
    /\ \E entered \in EnterOutcomes :
          IF entered = "ok"
          THEN /\ pc' = "submit_jobs"
               /\ submit' = [submit EXCEPT
                                !.dates = IF submit.dates = <<>>
                                          THEN COMPARISON_DATES
                                          ELSE submit.dates,
                                !.existing_jobs = submit.account_jobs]
          ELSE /\ pc' = "raised"
               /\ submit' = submit
    /\ UNCHANGED <<dl, vm, loadVars, seriesVars, slopeVars, liaVars,
                   offsetVars, resolveVars, pixelVars, metricVars>>

\* lines 72-113: one iteration of the loop over dates
SubmitDate ==
    /\ pc = "submit_jobs"
    /\ submit.i <= Len(submit.dates)
    /\ \E source \in SceneSources, outcome \in SubmitOutcomes :
          LET date_str  == submit.dates[submit.i]
              overwrite == overwrite_for(date_str, submit.overwrite)
              event ==
                  IF job_exists_skip(date_str, submit.existing_jobs, overwrite)
                  THEN "exists"
                  ELSE submit_event(source, outcome)
          IN  /\ date_str \notin JobDates =>
                    submit_event(source, outcome) = submit.elsewhere
              /\ submit' = [submit EXCEPT
                            !.overwrite = overwrite,
                            !.i = submit.i + 1,
                            !.log = Append(submit.log,
                                           [date |-> date_str, event |-> event])]
    /\ UNCHANGED <<pc, dl, vm, loadVars, seriesVars, slopeVars, liaVars,
                   offsetVars, resolveVars, pixelVars, metricVars>>

\* the loop is exhausted and submit_jobs returns
SubmitReturn ==
    /\ pc = "submit_jobs"
    /\ submit.i > Len(submit.dates)
    /\ pc' = "returned"
    /\ UNCHANGED <<submit, dl, vm, loadVars, seriesVars, slopeVars, liaVars,
                   offsetVars, resolveVars, pixelVars, metricVars>>

NextSubmit == SubmitEnter \/ SubmitDate \/ SubmitReturn

SpecSubmit == InitSubmit /\ [][NextSubmit]_vars

(***************************************************************************)
(* _download_safe_files.py: download_safe_files                            *)
(*                                                                         *)
(* The directory of SAFE files is the set of the dates for which           *)
(* get_safe_path finds a file.  The ASF search, the download and the       *)
(* extraction answer nondeterministically: freely for the dates of the     *)
(* campaign, and in one way, chosen with the call, for all other dates of  *)
(* COMPARISON_DATES.                                                       *)
(***************************************************************************)
\* what happens to a date that is not skipped: asf.search raises (line 70),
\* it finds nothing (line 79), granule.download raises (line 90), the zip
\* file is missing (line 100), the extraction raises (lines 95-96) before
\* or after it has written a part of the SAFE directory of the scene, or the
\* SAFE directory of the scene is extracted
DownloadOutcomes ==
    {"search_error", "no_scene", "download_error", "zip_missing",
     "extract_error", "extract_error_partial", "done"}

\* lines 64-66 and 84: the search window is the day before the date to the
\* day after it, and the scene results[0] is of any day of the window
WindowDays == {-1, 0, 1}

\* date_dt - timedelta(days=1) for the dates of COMPARISON_DATES
DAY_BEFORE ==
    <<"20170507", "20170514", "20170525",
      "20170606", "20170612", "20170613", "20170619", "20170623", "20170629",
      "20170706", "20170713", "20170719",
      "20170731", "20170806", "20170822", "20170830",
      "20170923", "20170927",
      "20171009", "20171015">>

\* date_dt + timedelta(days=1) for the dates of COMPARISON_DATES
DAY_AFTER ==
    <<"20170509", "20170516", "20170527",
      "20170608", "20170614", "20170615", "20170621", "20170625", "20170701",
      "20170708", "20170715", "20170721",
      "20170802", "20170808", "20170824", "20170901",
      "20170925", "20170929",
      "20171011", "20171017">>

\* the day of the scene that the search for date_str returned
scene_day(date_str, day) ==
    LET i == CHOOSE j \in 1..Len(COMPARISON_DATES) : COMPARISON_DATES[j] = date_str
    IN  CASE day = 0 -> date_str
          [] day < 0 -> DAY_BEFORE[i]
          [] day > 0 -> DAY_AFTER[i]

\* the outcomes that leave a SAFE directory, which get_safe_path finds for
\* the day of the scene
writes_safe(outcome) == outcome \in {"done", "extract_error_partial"}

\* lines 36-47: auth_with_creds raises when the login is refused, load_aoi
\* raises FileNotFoundError when the AOI file is missing, ALL_RAW_DIR.mkdir
\* raises when the directory cannot be made
DownloadEnterOutcomes == {"ok", "auth_error", "aoi_missing", "mkdir_error"}

\* lines 57-61: existing and existing.exists() and not overwrite
already_exists(date_str, safe, overwrite) == date_str \in safe /\ ~overwrite

\* mutant: a date whose zip file is missing is not recorded
record_outcome_DropMissingZip(lists, date_str, outcome) ==
    CASE outcome = "skipped" ->
           [lists EXCEPT !.skipped = Append(@, date_str)]
      [] outcome = "done" ->
           [lists EXCEPT !.downloaded = Append(@, date_str)]
      [] outcome = "zip_missing" -> lists
      [] OTHER ->
           [lists EXCEPT !.failed = Append(@, date_str)]

\* lines 60, 81, 99, 102, 106: the list the date is appended to
record_outcome(lists, date_str, outcome) ==
    CASE outcome = "skipped" ->
           [lists EXCEPT !.skipped = Append(@, date_str)]
      [] outcome = "done" ->
           [lists EXCEPT !.downloaded = Append(@, date_str)]
      [] OTHER ->
           [lists EXCEPT !.failed = Append(@, date_str)]

\* the requests: any list of dates of the campaign (the function does not
\* check that the dates are distinct), and COMPARISON_DATES, which the call
\* of the script passes as DATES_TO_DOWNLOAD (lines 28 and 139)
RequestLists == SeqsUpTo(JobDates, MaxDates) \cup {COMPARISON_DATES}

DownloadInputs ==
    {[dates_to_download |-> ds, overwrite |-> ow, safe |-> sf,
      elsewhere |-> [outcome |-> ev, day |-> day]] :
        ds \in RequestLists, ow \in BOOLEAN, sf \in SUBSET JobDates,
        ev \in DownloadOutcomes, day \in WindowDays}

\* the call download_safe_files(dates_to_download, overwrite) before its
\* first statement
InitDownload ==
    /\ pc = "call_download_safe_files"
    /\ \E in \in DownloadInputs :
          dl = [dates_to_download |-> in.dates_to_download,
                overwrite |-> in.overwrite,
                safe |-> in.safe,
                elsewhere |-> in.elsewhere,
                i |-> 1,
                lists |-> [downloaded |-> <<>>, skipped |-> <<>>,
                           failed |-> <<>>]]
    /\ submit = <<>>
    /\ vm = <<>>
    /\ LoadIdle
    /\ SeriesIdle
    /\ SlopeIdle
    /\ LiaIdle
    /\ OffsetIdle
    /\ ResolveIdle
    /\ PixelIdle
    /\ MetricIdle

\* lines 36-49: the login, the AOI, the output directory, and downloaded,
\* skipped, failed = [], [], []; an exception ends the call
DownloadEnter ==
    /\ pc = "call_download_safe_files"
    /\ \E entered \in DownloadEnterOutcomes :
          pc' = IF entered = "ok" THEN "download_safe_files" ELSE "raised"
    /\ UNCHANGED <<submit, dl, vm, loadVars, seriesVars, slopeVars, liaVars,
                   offsetVars, resolveVars, pixelVars, metricVars>>

\* lines 51-106: one iteration of the loop over the dates; an exception of
\* asf.search is not caught and ends the call
DownloadDate ==
    /\ pc = "download_safe_files"
    /\ dl.i <= Len(dl.dates_to_download)
    /\ \E answer \in DownloadOutcomes, day \in WindowDays :
          LET date_str == dl.dates_to_download[dl.i]
              outcome  == IF already_exists(date_str, dl.safe, dl.overwrite)
                          THEN "skipped" ELSE answer
          IN  /\ date_str \notin JobDates =>
                    answer = dl.elsewhere.outcome /\ day = dl.elsewhere.day
              /\ IF outcome = "search_error"
                 THEN /\ pc' = "raised"
                      /\ dl' = dl
                 ELSE /\ pc' = pc
                      /\ dl' = [dl EXCEPT
                                  !.i = dl.i + 1,
                                  !.safe = IF writes_safe(outcome)
                                           THEN dl.safe \cup
                                                {scene_day(date_str, day)}
                                           ELSE dl.safe,
                                  !.lists = record_outcome(dl.lists, date_str,
                                                           outcome)]
    /\ UNCHANGED <<submit, vm, loadVars, seriesVars, slopeVars, liaVars,
                   offsetVars, resolveVars, pixelVars, metricVars>>

\* line 115: return downloaded, skipped, failed
DownloadReturn ==
    /\ pc = "download_safe_files"
    /\ dl.i > Len(dl.dates_to_download)
    /\ pc' = "returned"
    /\ UNCHANGED <<submit, dl, vm, loadVars, seriesVars, slopeVars, liaVars,
                   offsetVars, resolveVars, pixelVars, metricVars>>

NextDownload == DownloadEnter \/ DownloadDate \/ DownloadReturn

SpecDownload == InitDownload /\ [][NextDownload]_vars

(***************************************************************************)
(* _change_detection.py: validate_method                                   *)
(*                                                                         *)
(* A matched date is the directory state of the SAR date and the state of  *)
(* the field measurements of the field date.  The lists all_bs and         *)
(* all_field are kept as the positions of the matched dates that           *)
(* contributed to them.                                                    *)
(***************************************************************************)
\* the methods that are validated and whose products a date may hold
ValidatedMethods == {"hyp3_gamma", "gee_s1ard_kartverket", "pyrosar_copernicus"}

\* the directory state of a date on which the products of P exist
DateFiles(P) ==
    [m \in MethodKeys |-> IF m \in P THEN <<1, 1>> ELSE None]

\* field_df[field_df['dato'] == field_date] and the samples of it: no row
\* (line 79), fewer than MIN_FIELD_POINTS finite pairs, or enough (line 107)
FieldStates == {"none", "few", "enough"}

\* line 107: valid.sum() >= 3
MIN_FIELD_POINTS == 3

MatchedDate ==
    {[files |-> DateFiles(P), field |-> fstate] :
        P \in SUBSET ValidatedMethods, fstate \in FieldStates}

RECURSIVE MatchedLists(_)
MatchedLists(n) ==
    IF n = 0 THEN {<<>>}
    ELSE MatchedLists(n - 1) \cup
         {Append(q, x) : q \in {r \in MatchedLists(n - 1) : Len(r) = n - 1},
                         x \in MatchedDate}

\* line 76: method_key not in data_dict or transform is None
skip_date(method_key, ld) ==
    method_key \notin DictKeys(ld.dict) \/ ~ld.ref_transform

\* lines 48-50: validate_method(method_key, field_df, matched_dates);
\* finite tells whether the grids of the method hold a finite pixel
InitValidate ==
    /\ pc = "calibrate"
    /\ \E mk \in ValidatedMethods, md \in MatchedLists(MaxDates),
          fin \in BOOLEAN :
          vm = [method_key |-> mk, matched_dates |-> md, finite |-> fin,
                i |-> 1, all_bs |-> <<>>, all_field |-> <<>>, log |-> <<>>,
                result |-> "pending"]
    /\ submit = <<>>
    /\ dl = <<>>
    /\ LoadIdle
    /\ SeriesIdle
    /\ SlopeIdle
    /\ LiaIdle
    /\ OffsetIdle
    /\ ResolveIdle
    /\ PixelIdle
    /\ MetricIdle

\* lines 51-55: one iteration of the first loop
CalibrateDate ==
    /\ pc = "calibrate"
    /\ vm.i <= Len(vm.matched_dates)
    /\ LET ld == load_all_methods(vm.matched_dates[vm.i].files)
       IN  vm' = [vm EXCEPT
                    !.i = vm.i + 1,
                    !.all_bs = IF vm.method_key \in DictKeys(ld.dict)
                               THEN Append(@, vm.i) ELSE @]
    /\ UNCHANGED <<pc, submit, dl, loadVars, seriesVars, slopeVars, liaVars,
                   offsetVars, resolveVars, pixelVars, metricVars>>

\* lines 57-64: return None when no grid, or no finite pixel, was collected
CalibrateEnd ==
    /\ pc = "calibrate"
    /\ vm.i > Len(vm.matched_dates)
    /\ IF vm.all_bs = <<>> \/ ~vm.finite
       THEN /\ pc' = "returned"
            /\ vm' = [vm EXCEPT !.result = "None"]
       ELSE /\ pc' = "validate"
            /\ vm' = [vm EXCEPT !.i = 1]
    /\ UNCHANGED <<submit, dl, loadVars, seriesVars, slopeVars, liaVars,
                   offsetVars, resolveVars, pixelVars, metricVars>>

\* lines 74-109: one iteration of the second loop; the log keeps what
\* load_all_methods returned and what became of the date
ValidateDate ==
    /\ pc = "validate"
    /\ vm.i <= Len(vm.matched_dates)
    /\ LET ld    == load_all_methods(vm.matched_dates[vm.i].files)
           field == vm.matched_dates[vm.i].field
           event == IF skip_date(vm.method_key, ld) THEN "skipped"
                    ELSE IF field = "none" THEN "no_field"
                    ELSE IF field = "few" THEN "few_points"
                    ELSE "extended"
       IN  vm' = [vm EXCEPT
                    !.i = vm.i + 1,
                    !.all_field = IF event = "extended"
                                  THEN Append(@, vm.i) ELSE @,
                    !.log = Append(@, [keys |-> DictKeys(ld.dict),
                                       transform |-> ld.ref_transform,
                                       event |-> event])]
    /\ UNCHANGED <<pc, submit, dl, loadVars, seriesVars, slopeVars, liaVars,
                   offsetVars, resolveVars, pixelVars, metricVars>>

\* lines 111-125: return None when no date contributed, else the scores
ValidateReturn ==
    /\ pc = "validate"
    /\ vm.i > Len(vm.matched_dates)
    /\ pc' = "returned"
    /\ vm' = [vm EXCEPT !.result = IF vm.all_field = <<>> THEN "None"
                                   ELSE "scores"]
    /\ UNCHANGED <<submit, dl, loadVars, seriesVars, slopeVars, liaVars,
                   offsetVars, resolveVars, pixelVars, metricVars>>

NextValidate == CalibrateDate \/ CalibrateEnd \/ ValidateDate \/ ValidateReturn

SpecValidate == InitValidate /\ [][NextValidate]_vars

(***************************************************************************)
(* Claims on SpecLoad                                                      *)
(***************************************************************************)
GridShapes(d) == {d[i].shape : i \in 1..Len(d)}

\* C1 (as claimed): whichever method files exist and whatever their native
\* shapes are, all grids that load_all_methods returns, and all grids that
\* analyze_single_date passes to calculate_stats, have one identical shape.
C1_AllGridsOneShape ==
    pc \in {"load_all_methods", "analyze_single_date"} =>
        /\ Cardinality(GridShapes(loaded.dict)) <= 1
        /\ Cardinality({rows[i].stats_of : i \in 1..Len(rows)}) <= 1

\* the shape a unit's reference would have by the rule of the claim: the
\* reference method's grid when it loads, else the first grid that loads
ClaimedRefShape(ld) ==
    IF "hyp3_gamma" \in DictKeys(ld.dict)
    THEN DictShape(ld.dict, "hyp3_gamma")
    ELSE files[ld.dict[1].method]

\* C2 (as claimed): whenever at least one grid loads, load_all_methods has a
\* reference shape (the reference method's shape when that grid loads, else
\* the shape of the first grid that loads), and every grid loaded after the
\* first one is compared against it.
C2_ReferenceShapeEstablished ==
    (pc = "load_all_methods" /\ loaded.dict # <<>>) =>
        /\ loaded.ref_shape # None
        /\ loaded.ref_shape = ClaimedRefShape(loaded)
        /\ \A i \in 2..Len(loaded.dict) : loaded.dict[i].method \in loaded.compared

\* C3: no pairwise metric (calculate_rmse, calculate_bias,
\* calculate_correlation in analyze_inter_product; calc_rmse, calc_r2 in
\* run_extended) is invoked on a test grid whose shape differs from the shape
\* of the reference grid.
C3_MetricsOnEqualShapes ==
    \A c \in metric_calls : c.test = c.ref

\* C3 witness: analyze_inter_product has invoked its metrics in a unit where
\* one loaded grid has another shape than the reference grid (the guard of
\* line 123 skipped that grid and another grid was compared).
C3_Witness ==
    /\ pc = "analyze_inter_product"
    /\ metric_calls # {}
    /\ ref_method \in DictKeys(data_dict)
    /\ \E i \in 1..Len(data_dict) :
          data_dict[i].shape # DictShape(data_dict, ref_method)

\* the loaded methods other than the reference, in dict order
NonRefLoaded(d) == SelectSeq(d, LAMBDA e : e.method # ref_method)

\* C4 (as claimed): when the reference method is loaded, analyze_inter_product
\* emits exactly one row per loaded non-reference method, each with
\* ref = the reference method, and no row for the reference method.
C4_OneRowPerNonReference ==
    (pc = "analyze_inter_product" /\ ref_method \in DictKeys(loaded.dict)) =>
        /\ Len(rows) = Len(NonRefLoaded(loaded.dict))
        /\ \A i \in 1..Len(rows) :
              /\ rows[i].method = NonRefLoaded(loaded.dict)[i].method
              /\ rows[i].ref = ref_method

(***************************************************************************)
(* Claims on SpecSeries                                                    *)
(***************************************************************************)
\* the rows of a stats table that belong to unit u
StatsRowsOf(table, u) ==
    SelectSeq(table,
              LAMBDA r : r.date = u.date /\ r.aoi = u.aoi /\ r.pol = u.pol)

\* C6: in run_timeseries_analysis and run_single_date_analysis every
\* configured unit is visited whatever was missing in earlier units (when the
\* driver returns, the units visited are exactly the configured ones, in
\* order), and for each visited unit the stats table holds exactly one row
\* per loaded method and no row for a method that is unavailable.
C6_EveryUnitOneRowPerLoadedMethod ==
    /\ pc = "returned" =>
          /\ Len(seen) = UnitCount(driver)
          /\ \A k \in 1..UnitCount(driver) :
                seen[k].unit = UnitAt(DatesOf(driver), k)
    /\ LET table == Concat(all_stats) IN
          \A k \in 1..Len(seen) :
              LET rs == StatsRowsOf(table, seen[k].unit) IN
              /\ {rs[i].method : i \in 1..Len(rs)} = seen[k].methods
              /\ Len(rs) = Cardinality(seen[k].methods)

\* C6 witness: the driver returned after a first unit in which nothing
\* loaded and a later unit in which some methods, but not the reference and
\* not all, loaded; the table holds the rows of that unit.
C6_Witness ==
    /\ pc = "returned"
    /\ seen[1].methods = {}
    /\ \E k \in 2..Len(seen) :
          /\ seen[k].methods # {}
          /\ seen[k].methods # MethodKeys
          /\ "hyp3_gamma" \notin seen[k].methods
          /\ stats_df # None
          /\ Len(stats_df) = Cardinality(seen[k].methods)

(***************************************************************************)
(* Claims on SpecSlope and SpecLia                                         *)
(***************************************************************************)
\* the number of samples that pass the validity filter as the specification
\* words it: both finite, 15 <= lia <= 60, -40 < bs < 5
NValidByClaim(bs, lia) ==
    Cardinality({i \in 1..Len(bs) :
        /\ bs[i] # NaN /\ lia[i] # NaN
        /\ lia[i] \in 15..60
        /\ bs[i] \in (-39)..4})

SlopeFields == {"slope", "intercept", "r2", "n"}

\* C7 (as claimed): with fewer than 20 samples passing the validity filter,
\* calc_slope returns a record whose fields slope, intercept, r2 and n are all
\* the undefined sentinel.
C7_AllFieldsUndefined ==
    (pc = "calc_slope" /\ NValidByClaim(slope_in.bs, slope_in.lia) < 20) =>
        /\ SlopeFields \subseteq DOMAIN slope_out
        /\ \A k \in SlopeFields : slope_out[k] = Undefined

\* C7 (amended): with fewer than 20 samples passing the validity filter,
\* calc_slope returns a record with exactly the fields slope, r2 and n, where
\* slope and r2 are the undefined sentinel and n is the number of samples
\* that pass the filter; the record has no intercept field.
C7_SlopeAndR2Undefined ==
    (pc = "calc_slope" /\ NValidByClaim(slope_in.bs, slope_in.lia) < 20) =>
        /\ DOMAIN slope_out = {"slope", "r2", "n"}
        /\ slope_out.slope = Undefined
        /\ slope_out.r2 = Undefined
        /\ slope_out.n = NValidByClaim(slope_in.bs, slope_in.lia)

\* C7 witness: calc_slope ran on arrays of more than 20 samples of which
\* exactly 19 pass the filter.
C7_Witness ==
    /\ pc = "calc_slope"
    /\ Len(slope_in.bs) > 20
    /\ NValidByClaim(slope_in.bs, slope_in.lia) = 19
    /\ slope_out.n = 19

\* the methods of a unit whose backscatter raster and angle raster exist,
\* with the angle raster each method reads as the specification lists them
AngleFileByClaim(m) ==
    IF m \in {"hyp3_gamma", "gee_standard"} THEN "hyp3_inc"
    ELSE IF m = "pyrosar_kartverket"
         THEN "pyrosar_kartverket_localIncidenceAngle_cropped"
    ELSE IF m = "pyrosar_copernicus"
         THEN "pyrosar_copernicus_localIncidenceAngle_cropped"
    ELSE IF m = "gee_s1ard_kartverket" THEN "s1ard_kartverket_lia"
    ELSE "s1ard_copernicus_lia"

HasBothFiles(m) ==
    m \in lia_unit.bs /\ AngleFileByClaim(m) \in lia_unit.lia

RowMethods(df) == {df[i].method : i \in 1..Len(df)}

\* C5 (as claimed): run_analysis returns no rows for a unit only when the
\* reference method's backscatter product is absent; any other missing
\* backscatter or angle file removes only the affected method's row.
C5_DroppedOnlyWithoutReference ==
    pc = "run_analysis" =>
        /\ lia_ret.df = None => "hyp3_gamma" \notin lia_unit.bs
        /\ "hyp3_gamma" \in lia_unit.bs =>
              RowMethods(lia_ret.df) = {m \in MethodKeys : HasBothFiles(m)}

\* C5 (amended): run_analysis returns no rows for a unit exactly when the
\* reference method's backscatter product is absent or no method of the unit
\* has both its backscatter raster and its angle raster; otherwise it returns
\* exactly one row for each method that has both, so a missing file removes
\* only the rows of the methods that read it.
C5_DroppedWithoutReferenceOrPairs ==
    pc = "run_analysis" =>
        /\ lia_ret.df = None <=>
              \/ "hyp3_gamma" \notin lia_unit.bs
              \/ \A m \in MethodKeys : ~HasBothFiles(m)
        /\ "hyp3_gamma" \in lia_unit.bs =>
              /\ RowMethods(lia_ret.df) = {m \in MethodKeys : HasBothFiles(m)}
              /\ Len(lia_ret.df) = Cardinality(RowMethods(lia_ret.df))

\* C5 witness: the reference backscatter exists but the HyP3 angle raster
\* does not, another method lacks its backscatter raster, and rows were
\* returned for the remaining methods only.
C5_Witness ==
    /\ pc = "run_analysis"
    /\ "hyp3_gamma" \in lia_unit.bs
    /\ "hyp3_inc" \notin lia_unit.lia
    /\ "pyrosar_copernicus" \notin lia_unit.bs
    /\ lia_ret.df # None
    /\ RowMethods(lia_ret.df) = {"pyrosar_kartverket", "gee_s1ard_kartverket"}

LiaRowFieldsClaimed ==
    {"date", "aoi", "pol", "method", "slope", "intercept", "r2", "n"}

\* C8 (as claimed): every row that run_analysis emits carries the fields
\* date, aoi, pol, method, slope, intercept, r2 and n.
C8_RowsCarryIntercept ==
    (pc = "run_analysis" /\ lia_ret.df # None) =>
        \A i \in 1..Len(lia_ret.df) :
            LiaRowFieldsClaimed \subseteq DOMAIN lia_ret.df[i]

\* C8 (amended): every row that run_analysis emits carries exactly the
\* fields date, aoi, pol, method, slope, r2 and n (no intercept), with the
\* unit's date, AOI and polarization and n the number of valid samples.
C8_RowsCarrySlopeR2N ==
    (pc = "run_analysis" /\ lia_ret.df # None) =>
        \A i \in 1..Len(lia_ret.df) :
            LET row == lia_ret.df[i] IN
            /\ DOMAIN row = {"date", "aoi", "pol", "method", "slope", "r2", "n"}
            /\ row.date = Unit0.date /\ row.aoi = Unit0.aoi /\ row.pol = Unit0.pol
            /\ row.method \in MethodKeys
            /\ row.n = lia_unit.good
            /\ (row.slope = Undefined) <=> (row.n < 20)

\* C8 witness: run_analysis emitted a row whose regression was computed
\* (the record of calc_slope has an intercept, the row has none).
C8_Witness ==
    /\ pc = "run_analysis"
    /\ lia_ret.df # None
    /\ \E i \in 1..Len(lia_ret.df) :
          /\ lia_ret.df[i].n >= 20
          /\ lia_ret.df[i].slope # Undefined
          /\ "intercept" \in DOMAIN lia_ret.reg_cache[i].reg


(***************************************************************************)
(* find_offset: scan order, ties and the valid-pixel gate (SpecOffset)     *)
(***************************************************************************)
Candidates(m) == ((-m)..m) \X ((-m)..m)

\* c1 is visited before c2 when dy is the outer and dx the inner loop,
\* both ascending
ScanBefore(c1, c2) == c1[1] < c2[1] \/ (c1[1] = c2[1] /\ c1[2] < c2[2])

CandSums(c) == ValidSums(off_in, off_norm, c[1], c[2])
CandCorr(c) == corrcoef(CandSums(c))

\* the candidates that can replace the best: enough valid pixels and a
\* defined correlation
Eligible(m) ==
    {c \in Candidates(m) : CandSums(c).n >= MIN_VALID /\ CandCorr(c) # Undefined}

\* C9: the candidates are evaluated with dy ascending in the outer loop and
\* dx ascending in the inner loop, and the returned shift is the first one
\* in that order that attains the maximal correlation: no eligible candidate
\* correlates better, and every eligible candidate scanned before it
\* correlates strictly worse (an equal later one never replaced it).
C9_FirstMaximumInScanOrder ==
    /\ \A a, b \in 1..Len(evaluated) :
          a < b => ScanBefore(evaluated[a], evaluated[b])
    /\ (pc = "returned" /\ evaluated # <<>>)
          => LET el == Eligible(off_in.max_shift)
             IN  el # {} =>
                   /\ off_ret \in el
                   /\ \A c \in el :
                         /\ ~CorrGreater(CandCorr(c), CandCorr(off_ret))
                         /\ ScanBefore(c, off_ret)
                               => CorrGreater(CandCorr(off_ret), CandCorr(c))

\* C9 witness: find_offset has returned the first of several eligible
\* candidates that tie at the maximal correlation
C9_Witness ==
    /\ pc = "returned"
    /\ evaluated # <<>>
    /\ off_ret \in Eligible(off_in.max_shift)
    /\ \E c \in Eligible(off_in.max_shift) :
          /\ ScanBefore(off_ret, c)
          /\ ~CorrGreater(CandCorr(off_ret), CandCorr(c))
          /\ ~CorrGreater(CandCorr(c), CandCorr(off_ret))

\* C10: a step that evaluates a candidate with fewer than 50 pixels at
\* which both grids are nonzero leaves the tracked best as it was.
C10_SparseCandidateNeverReplaces ==
    [][(pc = "scan" /\ dy <= off_in.max_shift
           /\ CandSums(<<dy, dx>>).n < MIN_VALID) => best' = best]_vars

\* C10 witness: the scan has passed a candidate with fewer than 50 valid
\* pixels whose correlation exceeds that of the best, and did not take it
C10_Witness ==
    /\ pc = "scan"
    /\ best.shift # <<0, 0>>
    /\ \E k \in 1..Len(evaluated) :
          /\ CandSums(evaluated[k]).n < MIN_VALID
          /\ CandCorr(evaluated[k]) # Undefined
          /\ CorrGreater(CandCorr(evaluated[k]), best.corr)
          /\ best.shift # evaluated[k]


\* a grid whose zero-filled pixels are all equal: its standard deviation is 0
ConstantGrid(grid) ==
    \A k1, k2 \in 1..NPixels :
        fill_nonfinite(grid[Row(k1)][Col(k1)]) = fill_nonfinite(grid[Row(k2)][Col(k2)])

\* C11: when the zero-filled reference grid or the zero-filled test grid has
\* a standard deviation below 1e-6, find_offset returns (0, 0) and has
\* evaluated no candidate shift; it never scans such a pair of grids.
C11_DegenerateReturnsZeroUnscanned ==
    (ConstantGrid(off_in.ref) \/ ConstantGrid(off_in.test)) =>
        /\ pc \in {"start", "returned"}
        /\ evaluated = <<>>
        /\ pc = "returned" => off_ret = <<0, 0>>

\* C11 witness: find_offset has returned (0, 0) for a constant test grid and
\* a reference grid that varies
C11_Witness ==
    /\ pc = "returned"
    /\ ConstantGrid(off_in.test)
    /\ ~ConstantGrid(off_in.ref)
    /\ off_in.max_shift > 0
    /\ off_ret = <<0, 0>>
    /\ evaluated = <<>>

\* C12 (as claimed): find_offset(ref, ref, max_shift=3) returns (0, 0) for
\* every reference grid that is not degenerate.
C12_SelfOffsetIsZero ==
    (/\ pc = "returned"
     /\ off_in.test = off_in.ref
     /\ off_in.max_shift = DEFAULT_MAX_SHIFT
     /\ ~ConstantGrid(off_in.ref)) => off_ret = <<0, 0>>

\* the number of steps a call of find_offset has left at most: the scan of
\* the candidates not yet evaluated, and the return
StepsLeft ==
    LET total == (2 * off_in.max_shift + 1) * (2 * off_in.max_shift + 1)
    IN  CASE pc = "start" -> total + 2
          [] pc = "scan" -> (total - Len(evaluated)) + 1
          [] OTHER -> 0

\* C13: find_offset evaluates at most (2 * max_shift + 1)^2 candidates, each
\* of them a shift (dy, dx) with dy, dx in -max_shift..max_shift and none of
\* them twice, and it terminates: every step of a call decreases StepsLeft,
\* which is never negative.
C13_BoundedScanTerminates ==
    /\ [](/\ Len(evaluated) <= (2 * off_in.max_shift + 1) * (2 * off_in.max_shift + 1)
          /\ \A a \in 1..Len(evaluated) :
                evaluated[a] \in Candidates(off_in.max_shift)
          /\ \A a, b \in 1..Len(evaluated) :
                a # b => evaluated[a] # evaluated[b]
          /\ StepsLeft >= 0
          /\ (StepsLeft = 0) <=> (pc = "returned"))
    /\ [][StepsLeft' < StepsLeft]_vars

\* C13 witness: find_offset has returned after the full scan with the
\* default max_shift, (2 * 3 + 1)^2 evaluations
C13_Witness ==
    /\ pc = "returned"
    /\ off_in.max_shift = DEFAULT_MAX_SHIFT
    /\ Len(evaluated) = (2 * DEFAULT_MAX_SHIFT + 1) * (2 * DEFAULT_MAX_SHIFT + 1)



(***************************************************************************)
(* Claims on SpecResolve                                                   *)
(***************************************************************************)
\* the unit directory of the PyroSAR method that is resolved, and its files
ResolvedDir == target_dir(dem_type_of(res_args.method))
DirFiles == {fs[ResolvedDir][i] : i \in 1..Len(fs[ResolvedDir])}

\* name matches the rule-th candidate rule of find_pyrosar_file
RuleMatches(rule, name) ==
    CASE rule = 1 -> name = cropped_pattern(AOI_KEYS[1], res_args.pol)
      [] rule = 2 -> name = alt_pattern(AOI_KEYS[1], res_args.pol)
      [] rule = 3 -> matches_cropped(name, upper(res_args.pol))
      [] rule = 4 -> matches_original(name, upper(res_args.pol))

MatchingRules == {rule \in 1..4 : \E n \in DirFiles : RuleMatches(rule, n)}

FirstMatchingRule == CHOOSE rule \in MatchingRules : \A r \in MatchingRules : rule <= r

\* C14: find_pyrosar_file returns a file of the unit directory that matches
\* the first of the rules canonical cropped name, alternative cropped name,
\* cropped pattern, uncropped original that any file matches (absent when
\* none does); so the canonical cropped file is returned whenever it exists,
\* and an uncropped file only when no cropped file matches.
C14_FirstMatchingRuleWins ==
    \A c \in 1..Len(found) :
        /\ IF MatchingRules = {} THEN found[c] = None
           ELSE /\ found[c] # None
                /\ found[c][1] = ResolvedDir
                /\ found[c][2] \in DirFiles
                /\ RuleMatches(FirstMatchingRule, found[c][2])
        /\ cropped_pattern(AOI_KEYS[1], res_args.pol) \in DirFiles
              => found[c] = <<ResolvedDir, cropped_pattern(AOI_KEYS[1], res_args.pol)>>
        /\ (found[c] # None /\ \E n \in DirFiles : \E rule \in 1..3 : RuleMatches(rule, n))
              => \E rule \in 1..3 : RuleMatches(rule, found[c][2])

\* C14 witness: the directory holds an uncropped original and a cropped file
\* that only the pattern rule matches, and the cropped file was returned
C14_Witness ==
    /\ found # <<>>
    /\ MatchingRules = {3, 4}
    /\ found[1] # None
    /\ RuleMatches(3, found[1][2])

\* C15 (as claimed): when the unit directory of a PyroSAR method holds no
\* cropped file for the polarization but an uncropped original, both
\* find_pyrosar_file and get_bs_path yield an uncropped original of it.
C15_UncroppedFallbackEverywhere ==
    (/\ res_args.method \in {"pyrosar_kartverket", "pyrosar_copernicus"}
     /\ MatchingRules = {4}) =>
        /\ \A c \in 1..Len(found) :
              found[c] # None /\ RuleMatches(4, found[c][2])
        /\ \A c \in 1..Len(bs_paths) :
              bs_paths[c] # None /\ RuleMatches(4, bs_paths[c][2])

\* C16 (as claimed): with the files of the unit unchanged, all calls of
\* find_pyrosar_file with the same arguments return the same path, and so do
\* all calls of get_bs_path, also when several files match a glob rule.
C16_ResolutionDeterministic ==
    /\ \A a, b \in 1..Len(found) : found[a] = found[b]
    /\ \A a, b \in 1..Len(bs_paths) : bs_paths[a] = bs_paths[b]

\* the files of the resolved directory that match the glob rule
GlobMatches(rule) == {n \in DirFiles : RuleMatches(rule, n)}

\* C16, the part that holds: all calls of find_pyrosar_file return the same
\* path when an exact name decides or the glob rule that decides matches one
\* file only, and all calls of get_bs_path return the same path when at most
\* one file matches the cropped pattern.
C16_DeterministicOnSingleMatch ==
    /\ (\/ MatchingRules = {}
        \/ FirstMatchingRule \in {1, 2}
        \/ Cardinality(GlobMatches(FirstMatchingRule)) = 1)
          => \A a, b \in 1..Len(found) : found[a] = found[b]
    /\ (\/ res_args.method \notin {"pyrosar_kartverket", "pyrosar_copernicus"}
        \/ Cardinality(GlobMatches(3)) <= 1)
          => \A a, b \in 1..Len(bs_paths) : bs_paths[a] = bs_paths[b]



(***************************************************************************)
(* Claims on SpecPixels                                                    *)
(***************************************************************************)
StageCells(i) == {px_data[i].grid.cells[k] : k \in 1..Len(px_data[i].grid.cells)}

FiniteCells(i) == {v \in StageCells(i) : v # NaN /\ v # NegInf}

C18_AbsentPathLoadsNothing ==
    (px_data # <<>> /\ px_in.path # "present") =>
        /\ ~px_data[1].ok
        /\ ~px_data[1].raised
        /\ ~px_opened
        /\ Len(px_data) = 1
        /\ pc = "absent"

\* C18 witness: load_raster of _data_utils.py returned for the path of no file
C18_Witness ==
    /\ pc = "absent"
    /\ px_in.loader = "load_all_methods"
    /\ px_in.path = "missing"
    /\ px_data # <<>>

\* C19: at each of the three alignment sites, a grid that has the reference
\* shape comes out unchanged, and a grid of another shape comes out with the
\* reference shape.
C19_AlignmentToReferenceShape ==
    \A i \in 2..Len(px_data) :
        (px_data[i].op \in {"align", "realign"} /\ px_data[i].ref_shape # None) =>
            IF px_data[i - 1].grid.shape = px_data[i].ref_shape
            THEN px_data[i].grid = px_data[i - 1].grid
            ELSE px_data[i].grid.shape = px_data[i].ref_shape

\* C19 witness: a grid was aligned to another shape and then re-aligned with
\* the shape it had
C19_Witness ==
    /\ pc = "realigned"
    /\ px_data[2].ref_shape # None
    /\ px_data[1].grid.shape # px_data[2].ref_shape
    /\ px_data[3].ref_shape = px_data[2].grid.shape
    /\ Len(px_data[2].grid.cells) > Len(px_data[1].grid.cells)

\* C20: calculate_stats on a grid without a finite pixel returns n = 0 with
\* mean, std and cv undefined; on any other grid n is the number of finite
\* pixels.
C20_StatsCountFinitePixels ==
    pc = "calculate_stats" =>
        LET g == Last(px_data).grid
            count == Cardinality({k \in 1..Len(g.cells) :
                                     g.cells[k] # NaN /\ g.cells[k] # NegInf})
        IN  IF count = 0
            THEN px_stats = [mean |-> Undefined, std |-> Undefined,
                             cv |-> Undefined, n |-> 0]
            ELSE px_stats.n = count /\ px_stats.mean # Undefined

\* C20 witness: calculate_stats returned for a grid of several pixels, none of
\* them finite
C20_Witness ==
    /\ pc = "calculate_stats"
    /\ Len(Last(px_data).grid.cells) >= 2
    /\ \A k \in 1..Len(Last(px_data).grid.cells) : Last(px_data).grid.cells[k] = NaN
    /\ px_stats.n = 0



(***************************************************************************)
(* Claims on SpecMetrics                                                   *)
(***************************************************************************)
\* the pixels that are finite in both grids of the comparison
JointlyFinite == {k \in 1..Len(mt_in.a) : mt_in.a[k] # NaN /\ mt_in.b[k] # NaN}

\* the pixelwise difference a - b, 0 outside the joint mask
MaskedDiff == [k \in 1..Len(mt_in.a) |-> IF k \in JointlyFinite
                                         THEN mt_in.a[k] - mt_in.b[k] ELSE 0]

\* == on two floats: nan equals nothing
FloatEq(x, y) == x # Undefined /\ y # Undefined /\ x = y

Neg(x) == IF x = Undefined THEN Undefined ELSE [num |-> -x.num, den |-> x.den]

RowOf(fn) == pc = "row" /\ mt_out.fn = fn

\* C21 (as claimed): calculate_correlation returns (nan, nan) exactly when
\* fewer than 3 pixels are finite in both grids.
C21_UndefinedExactlyBelowThree ==
    RowOf("analyze_inter_product") =>
        ((mt_out.r = Undefined /\ mt_out.p = Undefined)
            <=> Cardinality(JointlyFinite) < 3)

\* C21 (amended): with fewer than 3 jointly finite pixels r and p are nan;
\* with 3 or more they are pearsonr over exactly those pixels, which is nan
\* exactly when one grid is constant over them.
C21_PearsonOverJointMask ==
    RowOf("analyze_inter_product") =>
        IF Cardinality(JointlyFinite) < 3
        THEN mt_out.r = Undefined /\ mt_out.p = Undefined
        ELSE /\ mt_out.r = pearsonr(Take(mt_in.a, JointlyFinite),
                                    Take(mt_in.b, JointlyFinite)).r
             /\ (mt_out.p = Undefined) <=> (mt_out.r = Undefined)
             /\ mt_out.p # Undefined => mt_out.p.n = Cardinality(JointlyFinite)
             /\ (mt_out.r = Undefined) <=>
                   \/ Cardinality({mt_in.a[k] : k \in JointlyFinite}) = 1
                   \/ Cardinality({mt_in.b[k] : k \in JointlyFinite}) = 1

\* C21 witness: r is defined for grids with non-finite pixels and exactly 3
\* jointly finite ones
C21_Witness ==
    /\ RowOf("analyze_inter_product")
    /\ Cardinality(JointlyFinite) = 3
    /\ Len(mt_in.a) > 3
    /\ mt_out.r # Undefined

\* C22 (as claimed): the RMSE of either function is nan exactly when no pixel
\* is finite in both grids, and else is mean((a - b)^2) under the root.
C22_RmseUndefinedOnlyOnEmptyMask ==
    LET claimed == IF JointlyFinite = {} THEN Undefined
                   ELSE [sq_num |-> SumProd(MaskedDiff, MaskedDiff),
                         sq_den |-> Cardinality(JointlyFinite)]
    IN  /\ RowOf("analyze_inter_product") => mt_out.rmse = claimed
        /\ RowOf("run_extended") => mt_out.rmse_vs_ref = claimed

\* the bias as claimed: mean over the joint mask of method minus reference
ClaimedBias ==
    IF JointlyFinite = {} THEN Undefined
    ELSE [num |-> SumSeq(MaskedDiff), den |-> Cardinality(JointlyFinite)]

\* C24 (as claimed): calculate_bias(a, b) == -calculate_bias(b, a) for all
\* grids of one shape, and the bias of a row is method minus reference.
C24_BiasAntisymmetricEverywhere ==
    RowOf("analyze_inter_product") =>
        /\ mt_out.bias = ClaimedBias
        /\ FloatEq(calculate_bias(mt_in.a, mt_in.b),
                   Neg(calculate_bias(mt_in.b, mt_in.a)))

\* C24 (amended): the bias of a row is the mean over the joint mask of method
\* minus reference; calculate_bias(a, b) == -calculate_bias(b, a) when a pixel
\* is finite in both grids, and both are nan when none is.
C24_BiasAntisymmetricOnJointMask ==
    RowOf("analyze_inter_product") =>
        /\ mt_out.bias = ClaimedBias
        /\ IF JointlyFinite # {}
           THEN FloatEq(calculate_bias(mt_in.a, mt_in.b),
                        Neg(calculate_bias(mt_in.b, mt_in.a)))
           ELSE /\ calculate_bias(mt_in.a, mt_in.b) = Undefined
                /\ calculate_bias(mt_in.b, mt_in.a) = Undefined

\* C24 witness: a row with a non-zero bias over a partial joint mask
C24_Witness ==
    /\ RowOf("analyze_inter_product")
    /\ JointlyFinite # {}
    /\ Cardinality(JointlyFinite) < Len(mt_in.a)
    /\ mt_out.bias # Undefined
    /\ mt_out.bias.num < 0



(***************************************************************************)
(* Claims on SpecSlope: the validity filter                                *)
(***************************************************************************)
\* the samples that pass as the claim words it, in array order
PassingByClaim ==
    SelectSeq([i \in 1..Len(slope_in.bs) |-> i],
              LAMBDA i : /\ slope_in.bs[i] # NaN /\ slope_in.lia[i] # NaN
                         /\ 15 <= slope_in.lia[i] /\ slope_in.lia[i] <= 60
                         /\ -40 < slope_in.bs[i] /\ slope_in.bs[i] < 5)

\* C23: calc_slope counts in n, and passes to the regression, exactly the
\* samples with both values finite, 15 <= lia <= 60 and -40 < bs < 5, and it
\* computes the regression exactly when at least 20 samples pass.
C23_FilterBoundsAndGate ==
    pc = "calc_slope" =>
        /\ slope_out.n = Len(PassingByClaim)
        /\ ("_lia" \in DOMAIN slope_out) <=> (Len(PassingByClaim) >= 20)
        /\ (slope_out.slope # Undefined) <=> (Len(PassingByClaim) >= 20)
        /\ Len(PassingByClaim) >= 20 =>
              /\ slope_out._lia = [k \in 1..Len(PassingByClaim) |->
                                      slope_in.lia[PassingByClaim[k]]]
              /\ slope_out._bs = [k \in 1..Len(PassingByClaim) |->
                                     slope_in.bs[PassingByClaim[k]]]
              /\ slope_out.slope = linregress(slope_out._lia, slope_out._bs).slope

\* C23 witness: exactly 20 samples pass, the last one on the inclusive angle
\* bound 60 and next to the exclusive backscatter bound -40
C23_Witness ==
    /\ pc = "calc_slope"
    /\ slope_out.n = 20
    /\ slope_out.slope # Undefined
    /\ slope_out._lia[20] = 60
    /\ Len(slope_in.bs) = 20
    /\ slope_in.bs[20] = -39



(***************************************************************************)
(* Claims on SpecLia: the radians flag                                     *)
(***************************************************************************)
\* C25: get_lia_path flags a method as radians exactly when its angle path is
\* the incidence map of HyP3; run_analysis converts an angle grid to degrees
\* exactly when the flag is set, and the angles that calc_slope receives are
\* the angles of the samples in degrees.
C25_AnglesReachSlopeInDegrees ==
    /\ \A m \in MethodKeys :
          get_lia_path(m).is_rad <=> (get_lia_path(m).file = "hyp3_inc")
    /\ (pc = "run_analysis" /\ lia_ret.lia_cache # None) =>
          \A i \in 1..Len(lia_ret.lia_cache) :
              LET e == lia_ret.lia_cache[i]
              IN  /\ e.converted <=> get_lia_path(e.method).is_rad
                  /\ e.lia = [k \in 1..lia_unit.good |-> GoodLia(k)]
                  /\ lia_ret.reg_cache[i].reg.n = lia_unit.good

\* C25 witness: a unit where a method that reads the HyP3 incidence map and a
\* method that reads its own angle raster both reached calc_slope with
\* enough samples
C25_Witness ==
    /\ pc = "run_analysis"
    /\ lia_ret.lia_cache # None
    /\ lia_unit.good >= 20
    /\ \E i, j \in 1..Len(lia_ret.lia_cache) :
          /\ lia_ret.lia_cache[i].converted
          /\ lia_ret.lia_cache[i].method = "gee_standard"
          /\ ~lia_ret.lia_cache[j].converted
          /\ lia_ret.reg_cache[i].reg.slope # Undefined
          /\ lia_ret.reg_cache[j].reg.slope # Undefined



(***************************************************************************)
(* Claims on SpecOffset: non-finite pixels and the fallback shift          *)
(***************************************************************************)
\* C26: a pixel that is non-finite in the reference grid or in the test grid
\* is outside the mask of valid pixels of every candidate shift that
\* find_offset evaluates, so that it never enters a correlation.
C26_NonFinitePixelsOutsideEveryMask ==
    pc \in {"scan", "returned"} =>
        \A e \in 1..Len(evaluated) : \A k \in 1..NPixels :
            valid(off_in, off_norm, Row(k), Col(k),
                  evaluated[e][1], evaluated[e][2]) =>
                /\ isfinite(off_in.ref[Row(k)][Col(k)])
                /\ isfinite(off_in.test[Row(k) - evaluated[e][1]]
                                       [Col(k) - evaluated[e][2]])

\* C27: when the scan has ended and no candidate shift had both 50 valid
\* pixels and a defined correlation, find_offset returns (0, 0); stated by
\* its contrapositive: a returned shift other than (0, 0) comes with a
\* candidate that passed the gate and had a defined correlation.
C27_NoEligibleCandidateReturnsZero ==
    (/\ pc = "returned"
     /\ evaluated # <<>>
     /\ off_ret # <<0, 0>>) =>
        \E c \in Candidates(off_in.max_shift) :
            CandSums(c).n >= MIN_VALID /\ CandCorr(c) # Undefined

\* C27 witness: a scan over more than one candidate has returned, and no
\* candidate passed the gate of 50 valid pixels
C27_Witness ==
    /\ pc = "returned"
    /\ off_in.max_shift >= 1
    /\ Len(evaluated) = Cardinality(Candidates(off_in.max_shift))
    /\ \A c \in Candidates(off_in.max_shift) : CandSums(c).n < MIN_VALID
    /\ off_ret = <<0, 0>>

\* C27, the other case: a scan has returned where a candidate passed the
\* gate and no candidate that passed it had a defined correlation
C27_WitnessUndefined ==
    /\ pc = "returned"
    /\ off_in.max_shift >= 1
    /\ Len(evaluated) = Cardinality(Candidates(off_in.max_shift))
    /\ \E c \in Candidates(off_in.max_shift) : CandSums(c).n >= MIN_VALID
    /\ \A c \in Candidates(off_in.max_shift) :
          CandSums(c).n >= MIN_VALID => CandCorr(c) = Undefined
    /\ off_ret = <<0, 0>>



(***************************************************************************)
(* Claims on SpecSubmit                                                    *)
(***************************************************************************)
\* the iterations in which hyp3.submit_rtc_job was called
SubmitCalls ==
    {k \in 1..Len(submit.log) : submit.log[k].event \in SubmitOutcomes}

\* C28: in a call with overwrite=False, submit_rtc_job is called for no date
\* whose job exists, except for the date 20170707; this holds also for the
\* dates that follow 20170707 in the list.
C28_ExistingJobsSkippedExceptResubmitDate ==
    (pc \in {"submit_jobs", "returned"} /\ ~submit.arg_overwrite) =>
        \A k \in SubmitCalls :
            job_name(submit.log[k].date) \in submit.existing_jobs =>
                submit.log[k].date = RESUBMIT_DATE

\* C28, the part that holds: a date is skipped for its existing job as long
\* as 20170707 has not been met in the list
C28_SkippedBeforeResubmitDate ==
    (pc \in {"submit_jobs", "returned"} /\ ~submit.arg_overwrite) =>
        \A k \in SubmitCalls :
            job_name(submit.log[k].date) \in submit.existing_jobs =>
                \E h \in 1..k : submit.dates[h] = RESUBMIT_DATE



(***************************************************************************)
(* Claims on SpecDownload                                                  *)
(***************************************************************************)
\* the number of entries of the list q that are the date d
Occurrences(q, d) == Cardinality({k \in 1..Len(q) : q[k] = d})

InList(q, d) == Occurrences(q, d) > 0

\* the number of the three lists that hold the date d
ListsHolding(d) ==
    (IF InList(dl.lists.downloaded, d) THEN 1 ELSE 0)
    + (IF InList(dl.lists.skipped, d) THEN 1 ELSE 0)
    + (IF InList(dl.lists.failed, d) THEN 1 ELSE 0)

\* the request holds no date twice, as in every call of the repository
DistinctDates(q) == \A a, b \in 1..Len(q) : a # b => q[a] # q[b]

\* C29: when download_safe_files returns, every requested date of a request
\* of distinct dates, as the program makes it (COMPARISON_DATES), is in
\* exactly one of the lists downloaded, skipped and failed, whatever the
\* search, the download and the extraction answered.
C29_EveryDateInExactlyOneList ==
    (pc = "returned" /\ DistinctDates(dl.dates_to_download)) =>
        \A k \in 1..Len(dl.dates_to_download) :
            ListsHolding(dl.dates_to_download[k]) = 1

\* C29 witness: the call for COMPARISON_DATES has returned with dates in each
\* of the three lists; 20170614 was skipped because the visit of 20170613
\* extracted the scene of the next day
C29_Witness ==
    /\ pc = "returned"
    /\ dl.dates_to_download = COMPARISON_DATES
    /\ dl.lists.failed # <<>>
    /\ dl.lists.downloaded # <<>>
    /\ InList(dl.lists.skipped, "20170614")



(***************************************************************************)
(* Claims on SpecValidate                                                  *)
(***************************************************************************)
\* on SpecLoad: load_all_methods returns a transform exactly when it loaded
\* the HyP3 grid, for every directory state and every shape of the rasters
TransformIffReferenceLoaded ==
    pc # "start" =>
        /\ loaded.ref_transform <=> ("hyp3_gamma" \in DictKeys(loaded.dict))
        /\ loaded.ref_transform <=> (files["hyp3_gamma"] # None)

Hyp3Present(k) == vm.matched_dates[k].files["hyp3_gamma"] # None

OwnPresent(k) == vm.matched_dates[k].files[vm.method_key] # None

Contributed(q) == {q[j] : j \in 1..Len(q)}

\* C30: the transform that load_all_methods returns is present exactly when
\* the HyP3 grid was loaded, whatever GEE or PyroSAR grids were loaded; so
\* validate_method skips every matched date on which the HyP3 product is
\* absent, also when the product of the validated method exists on it.
C30_TransformOnlyFromReference ==
    pc \in {"validate", "returned"} =>
        /\ \A k \in 1..Len(vm.log) :
              /\ vm.log[k].transform <=> ("hyp3_gamma" \in vm.log[k].keys)
              /\ vm.log[k].transform <=> Hyp3Present(k)
              /\ ~Hyp3Present(k) => vm.log[k].event = "skipped"
        /\ \A k \in Contributed(vm.all_field) : Hyp3Present(k)

\* C30 witness: validate_method has returned scores; a date without the HyP3
\* product, on which the product of the method exists and the field has
\* enough points, was used by the first loop and skipped by the second
C30_Witness ==
    /\ pc = "returned"
    /\ vm.result = "scores"
    /\ \E k \in 1..Len(vm.log) :
          /\ ~Hyp3Present(k)
          /\ OwnPresent(k)
          /\ vm.matched_dates[k].field = "enough"
          /\ k \in Contributed(vm.all_bs)
          /\ k \notin Contributed(vm.all_field)
          /\ vm.log[k].event = "skipped"


====
